---- MODULE Spec2Model ----
(***************************************************************************)
(* A model of the workflow execution engine of the agent orchestrator:     *)
(* Step.execute (src/core/step.ts), Workflow.execute (core/workflow.ts)    *)
(* and AgentOrchestrator.execute (core/orchestrator.ts), and of the        *)
(* components around it: withRetry (utils/retry.ts), Agent (core/agent.ts) *)
(* and PluginManager (plugins/manager.ts), each under a specification of   *)
(* its own.                                                                *)
(*                                                                         *)
(* The program is asynchronous JavaScript on one thread.  An action of the *)
(* model is one synchronous segment of an async function: from the point   *)
(* where it is called or resumed after an `await` up to its next `await`   *)
(* (or its return/throw).  Calls made inside a segment run inside the same *)
(* action (StartStep is the synchronous head of Step.execute and is used   *)
(* by every caller's segment).  Agent calls, tool handlers and plugin      *)
(* hooks are external: they are in flight after the call and complete in a *)
(* later action with an outcome drawn from a small set.                    *)
(***************************************************************************)
EXTENDS Integers, Sequences, FiniteSets, TLC

VARIABLES
  workflow,          \* e -> the Workflow an execution runs (Workflow.steps, .parallel)
  ctx,               \* e -> ExecutionContext: variables, history, stepId
  frames,            \* e -> live Step.execute calls, keyed by the step's path
  wf,                \* e -> position of Workflow.execute / executeSequential / executeParallel
  plugins,           \* AgentOrchestrator.plugins
  maxConcurrentExecutions, \* AgentOrchestrator.config.maxConcurrentExecutions
  activeExecutions,  \* AgentOrchestrator.activeExecutions (its key set)
  call,              \* e -> state of the Orchestrator.execute call e
  ew,                \* e -> position of AgentOrchestrator.executeWorkflow
  timer,             \* e -> the setTimeout of createTimeoutPromise
  events,            \* e -> the 'execution:*' events emitted for e, in order
  hookLog,           \* e -> the plugin hooks invoked for e, in order
  shutdownState,     \* position of AgentOrchestrator.shutdown
  options,           \* withRetry: the RetryOptions it was called with
  attempt,           \* withRetry: the loop counter
  lastError,         \* withRetry: the local lastError
  retryPc,           \* withRetry: position of the call
  retryLog,          \* withRetry: fn invocations, onRetry calls and waits, in order
  retryResult,       \* withRetry: what the call returned or threw
  agent,             \* Agent: retryConfig, timeoutMs, tools
  agentPc,           \* Agent.execute: position of the call
  agentAttempt,      \* Agent.executeWithRetry: the loop counter
  agentLastError,    \* Agent.executeWithRetry: the local lastError
  agentLog,          \* Agent: model invocations, waits and handler calls, in order
  response,          \* Agent: the tool-call matches of the model response
  matchIndex,        \* Agent.processToolCalls: the match being processed
  toolCalls,         \* Agent.processToolCalls: the local toolCalls
  agentResult,       \* Agent.execute: what the call returned or threw
  pluginObjs,        \* the BasePlugin objects: o -> name, hooks, validate, cleanup
  pluginConfig,      \* o -> BasePlugin.config (enabled, priority)
  pmConfig,          \* PluginManager.config and whether .orchestrator is set
  pmPlugins,         \* PluginManager.plugins: name -> plugin, in insertion order
  pmHooks,           \* PluginManager.hooks: hook name -> list of {plugin, priority}
  pmCalls,           \* registerPlugin / unregisterPlugin calls awaiting a plugin method
  pmCount,           \* number of PluginManager calls made
  pmSeq,             \* number of registrations that have taken effect
  pmLast,            \* the outcome of the PluginManager call that finished last
  executeHookCall,   \* PluginManager.executeHook: the locals and position of the call
  invocations,       \* the hook methods that call has invoked, in order
  now,               \* Date.now()
  cachePlugin,       \* CachePlugin: maxSize, ttlMs and what this.cleanup() runs
  cache,             \* CachePlugin.cache: [key, value, timestamp] in insertion order
  cacheCtx,          \* c -> context.variables of the ExecutionContext c
  cacheCalls,        \* c -> the agent call in flight in context c
  cacheCount,        \* number of agent calls made
  cacheLast,         \* what the cache operation made last did
  recency,           \* the keys in the cache, least recently used first
  limiterPlugin,     \* RateLimiterPlugin: burstLimit, requestsPerHour
  limits,            \* RateLimiterPlugin.limits: key -> RateLimitEntry
  limiterCount,      \* number of beforeAgentExecution calls made
  limiterTicks,      \* number of times the clock was advanced
  windows,           \* key -> the burst window of the key and the calls admitted in it
  limiterLast,       \* the beforeAgentExecution call made last and its outcome
  metrics,           \* MetricsCollector.metrics
  timers,            \* MetricsCollector.timers: metric key -> values
  gauges,            \* MetricsCollector.gauges: metric key -> value
  summary            \* what the getSummary call made in the last step returned

retryVars == <<options, attempt, lastError, retryPc, retryLog, retryResult>>
agentVars == <<agent, agentPc, agentAttempt, agentLastError, agentLog, response,
               matchIndex, toolCalls, agentResult>>
\* the state of the utilities and components outside the workflow engine
pmVars == <<pluginObjs, pluginConfig, pmConfig, pmPlugins, pmHooks, pmCalls, pmCount,
           pmSeq, pmLast, executeHookCall, invocations>>
cacheVars == <<cachePlugin, cache, cacheCtx, cacheCalls, cacheCount, cacheLast,
              recency>>
\* the built-in plugins and the clock they read
limiterVars == <<limiterPlugin, limits, limiterCount, limiterTicks, windows, limiterLast>>
metricsVars == <<metrics, timers, gauges, summary>>
builtinVars == <<now, cacheVars, limiterVars, metricsVars>>
libVars == <<retryVars, agentVars, pmVars, builtinVars>>

vars == <<workflow, ctx, frames, wf, plugins, maxConcurrentExecutions,
          activeExecutions, call, ew, timer, events, hookLog, shutdownState,
          libVars>>

engineVars == <<workflow, ctx, frames, wf>>
orchVars == <<plugins, maxConcurrentExecutions, activeExecutions, call, ew,
              timer, events, hookLog, shutdownState>>

(***************************************************************************)
(* Bounds.                                                                 *)
(***************************************************************************)
MaxExecs == 2          \* number of Orchestrator.execute calls in a behaviour
MaxCap == 1            \* largest configured maxConcurrentExecutions

Execs == 1..MaxExecs

(***************************************************************************)
(* Values.  Every JavaScript value is a record tagged by t.                *)
(***************************************************************************)
Str(s) == [t |-> "str", v |-> s]
Bool(b) == [t |-> "bool", v |-> b]
Null == [t |-> "null"]
Undef == [t |-> "undef"]
MapV(f) == [t |-> "map", m |-> f]
ListV(s) == [t |-> "list", l |-> s]
\* new Error(msg): an error object; `at` makes two errors thrown at two
\* places (history record, plugin, timer) two different objects.
Err(msg, at) == [t |-> "err", msg |-> msg, at |-> at]
\* the aggregate errors of executeParallel: "<n> ... steps failed: <ids>"
AggErr(msg, ids, at) == [t |-> "err", msg |-> msg, count |-> Len(ids), ids |-> ids, at |-> at]

IsErr(v) == v.t = "err"

\* what an agent call or a tool handler may resolve with
Outputs == {Str("hello"), Null}

EmptyMap == [k \in {} |-> Null]
\* obj[k] = v on a JavaScript object
Put(obj, k, v) == (k :> v) @@ obj

(***************************************************************************)
(* Step configurations (StepConfig), "none" for an absent string field and *)
(* <<>> for an absent optional.                                            *)
(***************************************************************************)
StepCfg(id, type) ==
  [id |-> id, type |-> type, agentId |-> "none", toolName |-> "none",
   condition |-> "none", iterations |-> <<>>, steps |-> <<>>,
   onSuccess |-> "none", onFailure |-> "none"]

AgentStep(id) == [StepCfg(id, "agent") EXCEPT !.agentId = "assistant"]
ToolStep(id) == [StepCfg(id, "tool") EXCEPT !.toolName = "lookup"]
OnFail(s, r) == [s EXCEPT !.onFailure = r]

\* the agents and tools registered in the orchestrator facade
RegisteredAgents == {"assistant"}
RegisteredTools == {"lookup"}

CondStep(id, cond) == [StepCfg(id, "condition") EXCEPT !.condition = cond]
LoopStep(id, n, steps) == [StepCfg(id, "loop") EXCEPT !.iterations = <<n>>, !.steps = steps]
ParStep(id, steps) == [StepCfg(id, "parallel") EXCEPT !.steps = steps]

WorkflowCfg(steps, parallel) == [steps |-> steps, parallel |-> parallel]

\* The workflows run by the engine specification: every step type, the
\* validation failures, failure routing, nesting, duplicate ids.
EngineWorkflows ==
  { WorkflowCfg(<<AgentStep("respond")>>, FALSE),
    WorkflowCfg(<<AgentStep("a"), ToolStep("b"), AgentStep("c")>>, FALSE),
    WorkflowCfg(<<OnFail(AgentStep("s"), "r"), ToolStep("n"), ToolStep("r")>>, FALSE),
    WorkflowCfg(<<ToolStep("r"), OnFail(AgentStep("s"), "r"), ToolStep("n")>>, FALSE),
    WorkflowCfg(<<OnFail(ToolStep("s"), "ghost"), AgentStep("n")>>, FALSE),
    WorkflowCfg(<<OnFail(StepCfg("s", "agent"), "r"), OnFail(StepCfg("r", "tool"), "s")>>, FALSE),
    WorkflowCfg(<<[AgentStep("s") EXCEPT !.agentId = "ghost"],
                  [ToolStep("n") EXCEPT !.toolName = "ghost"]>>, TRUE),
    WorkflowCfg(<<AgentStep("a"), ToolStep("a")>>, FALSE),
    WorkflowCfg(<<LoopStep("l", 2, <<AgentStep("x"), ToolStep("y")>>), ToolStep("n")>>, FALSE),
    WorkflowCfg(<<[StepCfg("l", "loop") EXCEPT !.steps = <<ToolStep("x")>>],
                  OnFail(LoopStep("e", 1, <<>>), "l"),
                  LoopStep("z", 0, <<ToolStep("x")>>)>>, FALSE),
    WorkflowCfg(<<ParStep("p", <<AgentStep("x"), ToolStep("y")>>), AgentStep("n")>>, FALSE),
    WorkflowCfg(<<OnFail(ParStep("p", <<>>), "q"),
                  ParStep("q", <<ToolStep("x"), StepCfg("y", "tool")>>)>>, FALSE),
    WorkflowCfg(<<[CondStep("c", "true") EXCEPT !.onSuccess = "k", !.onFailure = "m",
                     !.steps = <<AgentStep("k"), ToolStep("m")>>],
                  [CondStep("d", "false") EXCEPT !.onSuccess = "k", !.onFailure = "m",
                     !.steps = <<AgentStep("k"), ToolStep("m")>>]>>, FALSE),
    WorkflowCfg(<<[CondStep("c", "true") EXCEPT !.onSuccess = "ghost",
                     !.steps = <<AgentStep("k")>>],
                  CondStep("d", "false"),
                  OnFail(StepCfg("v", "condition"), "w"),
                  StepCfg("w", "custom")>>, FALSE),
    WorkflowCfg(<<AgentStep("a"), OnFail(ToolStep("b"), "a")>>, TRUE),
    WorkflowCfg(<<ParStep("t", <<AgentStep("A"), ToolStep("B"), AgentStep("C")>>)>>, FALSE),
    WorkflowCfg(<<ParStep("d", <<ToolStep("x"), AgentStep("x")>>)>>, FALSE),
    WorkflowCfg(<<AgentStep("a"), ToolStep("b"), ToolStep("a")>>, TRUE),
    WorkflowCfg(<<>>, FALSE),
    WorkflowCfg(<<>>, TRUE) }

\* the values of context.variables.input the engine is called with
EngineInputs == {Str("hi"), MapV("message" :> Str("hi"))}

(***************************************************************************)
(* Step.execute                                                            *)
(***************************************************************************)
RECURSIVE StepIn(_, _)
StepIn(steps, p) ==
  IF Len(p) = 1 THEN steps[p[1]] ELSE StepIn(steps[p[1]].steps, Tail(p))

\* the Step object at path p of workflow w
StepAt(w, p) == StepIn(w.steps, p)

\* steps.find((s) => s.id === id): the index of the first match, 0 for none
FindStep(steps, id) ==
  IF \E k \in 1..Len(steps) : steps[k].id = id
  THEN CHOOSE k \in 1..Len(steps) :
         steps[k].id = id /\ \A m \in 1..(k - 1) : steps[m].id # id
  ELSE 0

DefaultIterations == 1
\* const iterations = this.iterations ?? 1
Iterations(step) ==
  IF step.iterations = <<>> THEN DefaultIterations ELSE step.iterations[1]

\* the ExecutionStep record Step.execute builds; path is not a field of the
\* program's record: it tells which Step object (top-level or nested) made it
NewExecutionStep(step, input, n, p) ==
  [id |-> n, stepId |-> step.id, agentId |-> step.agentId, input |-> input,
   output |-> Null, error |-> Undef, endTime |-> FALSE, duration |-> FALSE,
   path |-> p]

\* this.condition(context), for the predicates the model's workflows use
EvalCondition(cond, c) == cond = "true"

Remove(f, ps) == [q \in DOMAIN f \ ps |-> f[q]]

\* The synchronous head of Step.execute(input, context, orchestrator): the
\* record is pushed, then the type-specific method runs up to its first
\* await.  A frame is "run" while the agent call or tool handler is in
\* flight, "wait" while nested steps are awaited, "ret"/"thr" when the
\* type-specific method has returned/thrown and Step.execute has not resumed.
RECURSIVE StartStep(_, _, _, _, _), StartSteps(_, _, _, _, _, _)
StartStep(w, c, f, p, input) ==
  LET step == StepAt(w, p)
      n == Len(c.history) + 1
      c1 == [c EXCEPT !.history = Append(@, NewExecutionStep(step, input, n, p))]
      fr == [st |-> "run", rec |-> n, input |-> input, val |-> Null,
             i |-> 0, j |-> 0, cur |-> input, results |-> <<>>]
      Is(st, v) == [ctx |-> c1, frames |-> Put(f, p, [fr EXCEPT !.st = st, !.val = v])]
      Branch(id) == IF id = "none" THEN 0 ELSE FindStep(step.steps, id)
      Nested(j) == StartStep(w, c1, Put(f, p, [fr EXCEPT !.st = "wait", !.j = j]),
                             Append(p, j), input)
  IN CASE step.type = "agent" ->
            IF step.agentId = "none" THEN Is("thr", Err("Agent ID required", <<n>>))
            ELSE IF step.agentId \notin RegisteredAgents
                 THEN Is("thr", Err("Agent not found", <<n>>))
                 ELSE Is("run", Null)
       [] step.type = "tool" ->
            IF step.toolName = "none" THEN Is("thr", Err("Tool name required", <<n>>))
            ELSE IF step.toolName \notin RegisteredTools
                 THEN Is("thr", Err("Tool not found", <<n>>))
                 ELSE Is("run", Null)
       [] step.type = "condition" ->
            IF step.condition = "none"
            THEN Is("thr", Err("Condition function required", <<n>>))
            ELSE LET conditionResult == EvalCondition(step.condition, c1)
                     j == IF conditionResult /\ step.onSuccess # "none"
                          THEN Branch(step.onSuccess)
                          ELSE IF ~conditionResult /\ step.onFailure # "none"
                               THEN Branch(step.onFailure)
                               ELSE 0
                 IN IF j = 0 THEN Is("ret", Bool(conditionResult)) ELSE Nested(j)
       [] step.type = "loop" ->
            IF Len(step.steps) = 0 THEN Is("thr", Err("Loop steps required", <<n>>))
            ELSE IF Iterations(step) <= 0 THEN Is("ret", ListV(<<>>))
                 ELSE Nested(1)
       [] step.type = "parallel" ->
            IF Len(step.steps) = 0 THEN Is("thr", Err("Parallel steps required", <<n>>))
            ELSE StartSteps(w, c1, Put(f, p, [fr EXCEPT !.st = "wait"]), p, 1, input)
       [] OTHER -> Is("thr", Err("Unknown step type", <<n>>))

\* this.steps.map(async (step) => ... step.execute(input, ...)): the heads of
\* the steps k.. under p, in declaration order, all with the same input
StartSteps(w, c, f, p, k, input) ==
  LET steps == IF p = <<>> THEN w.steps ELSE StepAt(w, p).steps
  IN IF k > Len(steps) THEN [ctx |-> c, frames |-> f]
     ELSE LET s == StartStep(w, c, f, Append(p, k), input)
          IN StartSteps(w, s.ctx, s.frames, p, k + 1, input)

\* FinishStep with the catch block leaving the record as it was pushed
FinishStepErrorUnrecorded(c, f, p, ok, v) ==
  LET n == f[p].rec
  IN [ctx |-> [c EXCEPT !.history[n] =
                 IF ok THEN [@ EXCEPT !.output = v, !.endTime = TRUE, !.duration = TRUE]
                 ELSE @],
      frames |-> [f EXCEPT ![p] = [@ EXCEPT !.st = IF ok THEN "done" ELSE "fail",
                                            !.val = v]]]

\* FinishStep finalizing the record at the end of the history
FinishStepLast(c, f, p, ok, v) ==
  LET n == Len(c.history)
  IN [ctx |-> [c EXCEPT !.history[n] =
                 IF ok THEN [@ EXCEPT !.output = v, !.endTime = TRUE, !.duration = TRUE]
                 ELSE [@ EXCEPT !.error = v, !.endTime = TRUE, !.duration = TRUE]],
      frames |-> [f EXCEPT ![p] = [@ EXCEPT !.st = IF ok THEN "done" ELSE "fail",
                                            !.val = v]]]

\* The tail of Step.execute after `await this.executeX(...)`: the record is
\* finalized (output or error, endTime, duration) and the call returns the
\* result ("done") or rethrows the error ("fail").
FinishStep(c, f, p, ok, v) ==
  LET n == f[p].rec
  IN [ctx |-> [c EXCEPT !.history[n] =
                 IF ok THEN [@ EXCEPT !.output = v, !.endTime = TRUE, !.duration = TRUE]
                 ELSE [@ EXCEPT !.error = v, !.endTime = TRUE, !.duration = TRUE]],
      frames |-> [f EXCEPT ![p] = [@ EXCEPT !.st = IF ok THEN "done" ELSE "fail",
                                            !.val = v]]]

Settled(fr) == fr.st \in {"done", "fail"}

Set(e, s) ==
  /\ ctx' = [ctx EXCEPT ![e] = s.ctx]
  /\ frames' = [frames EXCEPT ![e] = s.frames]

\* agent.execute(prompt, context) or tool.handler(input, context) settles and
\* Step.execute resumes: the call resolved with a value or rejected.
LeafComplete(e) ==
  \E p \in DOMAIN frames[e] :
    /\ frames[e][p].st = "run"
    /\ \E ok \in BOOLEAN :
         \E v \in IF ok THEN Outputs ELSE {Err("call failed", <<frames[e][p].rec>>)} :
           Set(e, FinishStep(ctx[e], frames[e], p, ok, v))
    /\ UNCHANGED <<workflow, wf>>
    /\ UNCHANGED <<orchVars, libVars>>

\* Step.execute resumes after a type-specific method that returned or threw
\* without (or after) awaiting a call: validation errors, composite steps.
StepResume(e) ==
  \E p \in DOMAIN frames[e] :
    /\ frames[e][p].st \in {"ret", "thr"}
    /\ Set(e, FinishStep(ctx[e], frames[e], p, frames[e][p].st = "ret", frames[e][p].val))
    /\ UNCHANGED <<workflow, wf>>
    /\ UNCHANGED <<orchVars, libVars>>

\* ConditionResume returning the boolean after the branch has returned
ConditionResumeReturnsBoolean(e) ==
  \E p \in DOMAIN frames[e] :
    LET fr == frames[e][p]
        q == Append(p, fr.j)
    IN /\ fr.st = "wait"
       /\ StepAt(workflow[e], p).type = "condition"
       /\ q \in DOMAIN frames[e]
       /\ Settled(frames[e][q])
       /\ frames' = [frames EXCEPT ![e] =
            Remove([@ EXCEPT ![p] = [@ EXCEPT
                      !.st = IF frames[e][q].st = "done" THEN "ret" ELSE "thr",
                      !.val = IF frames[e][q].st = "done"
                              THEN Bool(EvalCondition(StepAt(workflow[e], p).condition,
                                                      ctx[e]))
                              ELSE frames[e][q].val]], {q})]
       /\ UNCHANGED <<workflow, ctx, wf>>
       /\ UNCHANGED <<orchVars, libVars>>

\* executeCondition resumes after `return await branch.execute(...)`
ConditionResume(e) ==
  \E p \in DOMAIN frames[e] :
    LET fr == frames[e][p]
        q == Append(p, fr.j)
    IN /\ fr.st = "wait"
       /\ StepAt(workflow[e], p).type = "condition"
       /\ q \in DOMAIN frames[e]
       /\ Settled(frames[e][q])
       /\ frames' = [frames EXCEPT ![e] =
            Remove([@ EXCEPT ![p] = [@ EXCEPT
                      !.st = IF frames[e][q].st = "done" THEN "ret" ELSE "thr",
                      !.val = frames[e][q].val]], {q})]
       /\ UNCHANGED <<workflow, ctx, wf>>
       /\ UNCHANGED <<orchVars, libVars>>

\* LoopResume with every iteration started on the loop step's input
LoopResumeFromInput(e) ==
  \E p \in DOMAIN frames[e] :
    LET fr == frames[e][p]
        step == StepAt(workflow[e], p)
        q == Append(p, fr.j)
        f1 == Remove(frames[e], {q})
    IN /\ fr.st = "wait"
       /\ step.type = "loop"
       /\ q \in DOMAIN frames[e]
       /\ Settled(frames[e][q])
       /\ IF frames[e][q].st = "fail"
          THEN /\ frames' = [frames EXCEPT ![e] =
                    [f1 EXCEPT ![p] = [@ EXCEPT !.st = "thr", !.val = frames[e][q].val]]]
               /\ ctx' = ctx
          ELSE LET currentInput == frames[e][q].val
                   results == Append(fr.results, currentInput)
               IN IF fr.j < Len(step.steps)
                  THEN Set(e, StartStep(workflow[e], ctx[e],
                                [f1 EXCEPT ![p] = [@ EXCEPT !.j = fr.j + 1,
                                                            !.cur = currentInput]],
                                Append(p, fr.j + 1), currentInput))
                  ELSE IF fr.i + 1 < Iterations(step)
                       THEN Set(e, StartStep(workflow[e], ctx[e],
                                     [f1 EXCEPT ![p] = [@ EXCEPT !.i = fr.i + 1, !.j = 1,
                                                                 !.cur = currentInput,
                                                                 !.results = results]],
                                     Append(p, 1), fr.input))
                       ELSE /\ frames' = [frames EXCEPT ![e] =
                                 [f1 EXCEPT ![p] = [@ EXCEPT !.st = "ret",
                                                             !.cur = currentInput,
                                                             !.results = results,
                                                             !.val = ListV(results)]]]
                            /\ ctx' = ctx
       /\ UNCHANGED <<workflow, wf>>
       /\ UNCHANGED <<orchVars, libVars>>

\* executeLoop resumes after `currentInput = await step.execute(...)`
LoopResume(e) ==
  \E p \in DOMAIN frames[e] :
    LET fr == frames[e][p]
        step == StepAt(workflow[e], p)
        q == Append(p, fr.j)
        f1 == Remove(frames[e], {q})
    IN /\ fr.st = "wait"
       /\ step.type = "loop"
       /\ q \in DOMAIN frames[e]
       /\ Settled(frames[e][q])
       /\ IF frames[e][q].st = "fail"
          THEN /\ frames' = [frames EXCEPT ![e] =
                    [f1 EXCEPT ![p] = [@ EXCEPT !.st = "thr", !.val = frames[e][q].val]]]
               /\ ctx' = ctx
          ELSE LET currentInput == frames[e][q].val
                   results == Append(fr.results, currentInput)
               IN IF fr.j < Len(step.steps)
                  THEN Set(e, StartStep(workflow[e], ctx[e],
                                [f1 EXCEPT ![p] = [@ EXCEPT !.j = fr.j + 1,
                                                            !.cur = currentInput]],
                                Append(p, fr.j + 1), currentInput))
                  ELSE IF fr.i + 1 < Iterations(step)
                       THEN Set(e, StartStep(workflow[e], ctx[e],
                                     [f1 EXCEPT ![p] = [@ EXCEPT !.i = fr.i + 1, !.j = 1,
                                                                 !.cur = currentInput,
                                                                 !.results = results]],
                                     Append(p, 1), currentInput))
                       ELSE /\ frames' = [frames EXCEPT ![e] =
                                 [f1 EXCEPT ![p] = [@ EXCEPT !.st = "ret",
                                                             !.cur = currentInput,
                                                             !.results = results,
                                                             !.val = ListV(results)]]]
                            /\ ctx' = ctx
       /\ UNCHANGED <<workflow, wf>>
       /\ UNCHANGED <<orchVars, libVars>>

\* FailedIds that stops at the first failed step
FailedIdsFirst(steps, f, p, k) ==
  IF \E m \in k..Len(steps) : f[Append(p, m)].st = "fail"
  THEN <<steps[CHOOSE m \in k..Len(steps) :
                  /\ f[Append(p, m)].st = "fail"
                  /\ \A i \in k..(m - 1) : f[Append(p, i)].st # "fail"].id>>
  ELSE <<>>

\* the ids of the steps k of `steps` whose call under p failed, in order
RECURSIVE FailedIds(_, _, _, _)
FailedIds(steps, f, p, k) ==
  IF k > Len(steps) THEN <<>>
  ELSE (IF f[Append(p, k)].st = "fail" THEN <<steps[k].id>> ELSE <<>>)
       \o FailedIds(steps, f, p, k + 1)

\* Combine without the `r.result !== null` test
RECURSIVE CombineAll(_, _, _, _, _)
CombineAll(steps, f, p, k, acc) ==
  IF k > Len(steps) THEN acc
  ELSE CombineAll(steps, f, p, k + 1, Put(acc, steps[k].id, f[Append(p, k)].val))

\* results.forEach((r) => { if (r.result !== null) combined[r.stepId] = r.result })
RECURSIVE Combine(_, _, _, _, _)
Combine(steps, f, p, k, acc) ==
  IF k > Len(steps) THEN acc
  ELSE LET r == f[Append(p, k)].val
       IN Combine(steps, f, p, k + 1, IF r = Null THEN acc ELSE Put(acc, steps[k].id, r))

ChildPaths(steps, p) == {Append(p, k) : k \in 1..Len(steps)}

\* Step.executeParallel resumes after `await Promise.all(stepPromises)`
ParallelResume(e) ==
  \E p \in DOMAIN frames[e] :
    LET fr == frames[e][p]
        step == StepAt(workflow[e], p)
        kids == ChildPaths(step.steps, p)
        errors == FailedIds(step.steps, frames[e], p, 1)
    IN /\ fr.st = "wait"
       /\ step.type = "parallel"
       /\ \A q \in kids : q \in DOMAIN frames[e] /\ Settled(frames[e][q])
       /\ frames' = [frames EXCEPT ![e] =
            Remove([@ EXCEPT ![p] =
               IF Len(errors) > 0
               THEN [@ EXCEPT !.st = "thr",
                              !.val = AggErr("parallel steps failed", errors, <<fr.rec>>)]
               ELSE [@ EXCEPT !.st = "ret",
                              !.val = MapV(Combine(step.steps, frames[e], p, 1, EmptyMap))]],
              kids)]
       /\ UNCHANGED <<workflow, ctx, wf>>
       /\ UNCHANGED <<orchVars, libVars>>

(***************************************************************************)
(* Workflow.execute                                                        *)
(***************************************************************************)
WfIdle == [pc |-> "idle", i |-> 0, r |-> 0, last |-> Undef, result |-> Undef]

\* context.variables.input
InputOf(c) == IF "input" \in DOMAIN c.variables THEN c.variables["input"] ELSE Undef

\* SequentialTurn with every step called on context.variables.input
SequentialTurnFromInput(w, c, f, i, last) ==
  IF i > Len(w.steps)
  THEN [ctx |-> c, frames |-> f,
        wf |-> [pc |-> "done", i |-> i, r |-> 0, last |-> last, result |-> last]]
  ELSE LET s == StartStep(w, [c EXCEPT !.stepId = w.steps[i].id], f, <<i>>, InputOf(c))
       IN [ctx |-> s.ctx, frames |-> s.frames,
           wf |-> [pc |-> "seq", i |-> i, r |-> 0, last |-> last, result |-> Undef]]

\* One turn of `for (const step of this.steps)` in executeSequential, from
\* the loop head: step i is called with lastResult, or the loop is over and
\* Workflow.execute returns lastResult.
SequentialTurn(w, c, f, i, last) ==
  IF i > Len(w.steps)
  THEN [ctx |-> c, frames |-> f,
        wf |-> [pc |-> "done", i |-> i, r |-> 0, last |-> last, result |-> last]]
  ELSE LET s == StartStep(w, [c EXCEPT !.stepId = w.steps[i].id], f, <<i>>, last)
       IN [ctx |-> s.ctx, frames |-> s.frames,
           wf |-> [pc |-> "seq", i |-> i, r |-> 0, last |-> last, result |-> Undef]]

\* The synchronous head of Workflow.execute(context, orchestrator).
StartWorkflow(w, c, f) ==
  IF w.parallel
  THEN LET s == StartSteps(w, c, f, <<>>, 1, InputOf(c))
       IN [ctx |-> s.ctx, frames |-> s.frames,
           wf |-> [pc |-> "par", i |-> 0, r |-> 0, last |-> Undef, result |-> Undef]]
  ELSE SequentialTurn(w, c, f, 1, InputOf(c))

SetRun(e, s) ==
  /\ ctx' = [ctx EXCEPT ![e] = s.ctx]
  /\ frames' = [frames EXCEPT ![e] = s.frames]
  /\ wf' = [wf EXCEPT ![e] = s.wf]

\* a caller invokes workflow.execute(context, orchestrator)
WorkflowExecute(e) ==
  /\ wf[e].pc = "idle"
  /\ SetRun(e, StartWorkflow(workflow[e], ctx[e], frames[e]))
  /\ UNCHANGED workflow
  /\ UNCHANGED <<orchVars, libVars>>

\* StoreResult with the write to context.variables left out
StoreResultSkipped(c, id, stepResult) == c

\* context.variables[step.id] = stepResult
StoreResult(c, id, stepResult) == [c EXCEPT !.variables = Put(@, id, stepResult)]

\* FailureStep with the onFailure routing left out
FailureStepIgnored(w, step) == 0

\* if (step.onFailure) this.steps.find((s) => s.id === step.onFailure):
\* the index of the recovery step of `step`, 0 for none
FailureStep(w, step) ==
  IF step.onFailure = "none" THEN 0 ELSE FindStep(w.steps, step.onFailure)

\* executeSequential resumes after `await step.execute(lastResult, ...)`:
\* the result is stored and the next step called, or the catch block routes
\* the error to the onFailure step or rethrows it.
SequentialResume(e) ==
  LET w == workflow[e]
      i == wf[e].i
      step == w.steps[i]
      fr == frames[e][<<i>>]
      f1 == Remove(frames[e], {<<i>>})
      r == FailureStep(w, step)
  IN /\ wf[e].pc = "seq"
     /\ Settled(fr)
     /\ IF fr.st = "done"
        THEN SetRun(e, SequentialTurn(w, StoreResult(ctx[e], step.id, fr.val),
                                      f1, i + 1, fr.val))
        ELSE IF r # 0
             THEN LET s == StartStep(w, [ctx[e] EXCEPT !.stepId = w.steps[r].id],
                                     f1, <<r>>, fr.val)
                  IN SetRun(e, [ctx |-> s.ctx, frames |-> s.frames,
                                wf |-> [wf[e] EXCEPT !.pc = "rec", !.r = r]])
             ELSE SetRun(e, [ctx |-> ctx[e], frames |-> f1,
                             wf |-> [wf[e] EXCEPT !.pc = "failed", !.result = fr.val]])
     /\ UNCHANGED workflow
     /\ UNCHANGED <<orchVars, libVars>>

\* RecoveryResume with the recovery step's error caught: the loop goes on
RecoveryResumeSwallow(e) ==
  LET w == workflow[e]
      fr == frames[e][<<wf[e].r>>]
      f1 == Remove(frames[e], {<<wf[e].r>>})
  IN /\ wf[e].pc = "rec"
     /\ Settled(fr)
     /\ SetRun(e, SequentialTurn(w, ctx[e], f1, wf[e].i + 1, fr.val))
     /\ UNCHANGED workflow
     /\ UNCHANGED <<orchVars, libVars>>

\* executeSequential resumes after `await failureStep.execute(error, ...)`
\* in the catch block: `continue` with its result, or its error propagates.
RecoveryResume(e) ==
  LET w == workflow[e]
      fr == frames[e][<<wf[e].r>>]
      f1 == Remove(frames[e], {<<wf[e].r>>})
  IN /\ wf[e].pc = "rec"
     /\ Settled(fr)
     /\ IF fr.st = "done"
        THEN SetRun(e, SequentialTurn(w, ctx[e], f1, wf[e].i + 1, fr.val))
        ELSE SetRun(e, [ctx |-> ctx[e], frames |-> f1,
                        wf |-> [wf[e] EXCEPT !.pc = "failed", !.result = fr.val]])
     /\ UNCHANGED workflow
     /\ UNCHANGED <<orchVars, libVars>>

\* WorkflowParallelResume with the write to context.variables left out
WorkflowParallelResumeNoStore(e) ==
  LET w == workflow[e]
      kids == ChildPaths(w.steps, <<>>)
      errors == FailedIds(w.steps, frames[e], <<>>, 1)
  IN /\ wf[e].pc = "par"
     /\ \A q \in kids : q \in DOMAIN frames[e] /\ Settled(frames[e][q])
     /\ SetRun(e, [ctx |-> ctx[e], frames |-> Remove(frames[e], kids),
                   wf |-> IF Len(errors) > 0
                          THEN [wf[e] EXCEPT !.pc = "failed",
                                  !.result = AggErr("steps failed", errors, <<0>>)]
                          ELSE [wf[e] EXCEPT !.pc = "done",
                                  !.result = MapV(Combine(w.steps, frames[e], <<>>, 1, EmptyMap))]])
     /\ UNCHANGED workflow
     /\ UNCHANGED <<orchVars, libVars>>

\* WorkflowParallelResume with the results written before the error check
WorkflowParallelResumeStoreFirst(e) ==
  LET w == workflow[e]
      kids == ChildPaths(w.steps, <<>>)
      errors == FailedIds(w.steps, frames[e], <<>>, 1)
      c == [ctx[e] EXCEPT !.variables = Combine(w.steps, frames[e], <<>>, 1, @)]
  IN /\ wf[e].pc = "par"
     /\ \A q \in kids : q \in DOMAIN frames[e] /\ Settled(frames[e][q])
     /\ SetRun(e, [ctx |-> c, frames |-> Remove(frames[e], kids),
                   wf |-> IF Len(errors) > 0
                          THEN [wf[e] EXCEPT !.pc = "failed",
                                  !.result = AggErr("steps failed", errors, <<0>>)]
                          ELSE [wf[e] EXCEPT !.pc = "done",
                                  !.result = MapV(Combine(w.steps, frames[e], <<>>, 1, EmptyMap))]])
     /\ UNCHANGED workflow
     /\ UNCHANGED <<orchVars, libVars>>

\* Workflow.executeParallel resumes after `await Promise.all(stepPromises)`
WorkflowParallelResume(e) ==
  LET w == workflow[e]
      kids == ChildPaths(w.steps, <<>>)
      errors == FailedIds(w.steps, frames[e], <<>>, 1)
  IN /\ wf[e].pc = "par"
     /\ \A q \in kids : q \in DOMAIN frames[e] /\ Settled(frames[e][q])
     /\ IF Len(errors) > 0
        THEN SetRun(e, [ctx |-> ctx[e], frames |-> Remove(frames[e], kids),
                        wf |-> [wf[e] EXCEPT !.pc = "failed",
                                  !.result = AggErr("steps failed", errors, <<0>>)]])
        ELSE SetRun(e, [ctx |-> [ctx[e] EXCEPT !.variables =
                                   Combine(w.steps, frames[e], <<>>, 1, @)],
                        frames |-> Remove(frames[e], kids),
                        wf |-> [wf[e] EXCEPT !.pc = "done",
                                  !.result = MapV(Combine(w.steps, frames[e], <<>>, 1, EmptyMap))]])
     /\ UNCHANGED workflow
     /\ UNCHANGED <<orchVars, libVars>>

(***************************************************************************)
(* The engine specification: one caller builds a context and calls         *)
(* Workflow.execute on it.                                                 *)
(***************************************************************************)
NoFrames == [q \in {} |-> Null]
NewContext(variables) == [variables |-> variables, history |-> <<>>, stepId |-> ""]

\* withRetry has not been called
RetryIdle ==
  /\ options = <<>>
  /\ attempt = 0
  /\ lastError = Undef
  /\ retryPc = "idle"
  /\ retryLog = <<>>
  /\ retryResult = Undef

\* no Agent.execute call has been made
AgentIdle ==
  /\ agent = <<>>
  /\ agentPc = "idle"
  /\ agentAttempt = 0
  /\ agentLastError = Null
  /\ agentLog = <<>>
  /\ response = <<>>
  /\ matchIndex = 0
  /\ toolCalls = <<>>
  /\ agentResult = Undef

\* no PluginManager has been constructed
\* no executeHook call has been made
NoHookCall ==
  [n |-> 0, pc |-> "idle", hookName |-> "none", args |-> <<>>, result |-> Undef,
   live |-> FALSE, list |-> <<>>, index |-> 0, atCall |-> <<>>]

PmIdle ==
  /\ executeHookCall = NoHookCall
  /\ invocations = <<>>
  /\ pluginObjs = <<>>
  /\ pluginConfig = <<>>
  /\ pmConfig = <<>>
  /\ pmPlugins = <<>>
  /\ pmHooks = <<>>
  /\ pmCalls = {}
  /\ pmCount = 0
  /\ pmSeq = 0
  /\ pmLast = <<>>

CacheIdle ==
  /\ cachePlugin = <<>>
  /\ cache = <<>>
  /\ cacheCtx = <<>>
  /\ cacheCalls = <<>>
  /\ cacheCount = 0
  /\ cacheLast = <<>>
  /\ recency = <<>>

LimiterIdle ==
  /\ limiterPlugin = <<>>
  /\ limits = <<>>
  /\ limiterCount = 0
  /\ limiterTicks = 0
  /\ windows = <<>>
  /\ limiterLast = <<>>

MetricsIdle ==
  /\ metrics = <<>>
  /\ timers = <<>>
  /\ gauges = <<>>
  /\ summary = <<>>

BuiltinIdle == now = 0 /\ CacheIdle /\ LimiterIdle /\ MetricsIdle

LibIdle == RetryIdle /\ AgentIdle /\ PmIdle /\ BuiltinIdle

OrchIdle ==
  /\ plugins = <<>>
  /\ maxConcurrentExecutions = MaxCap
  /\ activeExecutions = {}
  /\ call = [e \in Execs |-> [st |-> "idle", value |-> Undef, args |-> Undef]]
  /\ ew = [e \in Execs |-> [pc |-> "idle", k |-> 0, result |-> Undef, error |-> Undef]]
  /\ timer = [e \in 0..MaxExecs |-> [st |-> "none", ms |-> 0]]
  /\ events = [e \in 0..MaxExecs |-> <<>>]
  /\ hookLog = [e \in Execs |-> <<>>]
  /\ shutdownState = "idle"

Init ==
  /\ \E w \in EngineWorkflows : workflow = [e \in Execs |-> w]
  /\ \E v \in EngineInputs : ctx = [e \in Execs |-> NewContext("input" :> v)]
  /\ frames = [e \in Execs |-> NoFrames]
  /\ wf = [e \in Execs |-> WfIdle]
  /\ OrchIdle
  /\ LibIdle

\* the engine specification runs one Workflow.execute call, on context 1
Callers == {1}

Next ==
  \/ \E e \in Callers : WorkflowExecute(e)
  \/ \E e \in Callers : LeafComplete(e)
  \/ \E e \in Callers : StepResume(e)
  \/ \E e \in Callers : ConditionResume(e)
  \/ \E e \in Callers : LoopResume(e)
  \/ \E e \in Callers : ParallelResume(e)
  \/ \E e \in Callers : SequentialResume(e)
  \/ \E e \in Callers : RecoveryResume(e)
  \/ \E e \in Callers : WorkflowParallelResume(e)

Spec == Init /\ [][Next]_vars

(***************************************************************************)
(* AgentOrchestrator                                                       *)
(***************************************************************************)
DefaultMaxConcurrentExecutions == 10
DefaultTimeout == 300000

\* a Plugin of the orchestrator's plugin list and the optional hooks it has
Plugin(name, hooks) == [name |-> name, hooks |-> hooks]

PluginLists ==
  { <<>>,
    <<Plugin("p", {"beforeStep", "afterStep", "onError"})>>,
    <<Plugin("p", {"beforeStep", "onError"}), Plugin("q", {"afterStep", "onError"})>> }

\* the workflows registered in the orchestrator, by id
OrchWorkflows ==
  "respond" :> WorkflowCfg(<<AgentStep("respond")>>, FALSE)
  @@ "recover" :> WorkflowCfg(<<OnFail(StepCfg("s", "agent"), "r"), ToolStep("r")>>, FALSE)

\* The calls of execute(workflowId, input, { timeout }) a behaviour draws
\* from: registered and unknown ids, a mapping, a mapping with its own
\* "input" key, null; timeout 0 stands for an absent option too.
Calls ==
  { [id |-> "respond", input |-> MapV("message" :> Str("hi")), timeout |-> 0],
    [id |-> "recover", input |-> MapV("input" :> Str("inner")), timeout |-> 5000],
    [id |-> "ghost", input |-> Null, timeout |-> 0] }

\* { input, ...input }: the own enumerable properties of input, after `input`
Spread(input) == IF input.t = "map" THEN input.m ELSE EmptyMap
InitialVariables(input) == Spread(input) @@ ("input" :> input)

\* the object execute resolves with: the context of execution e itself
ContextOf(e) == [t |-> "context", e |-> e]

CallIdle == [st |-> "idle", value |-> Undef, args |-> Undef]
EwIdle == [pc |-> "idle", k |-> 0, result |-> Undef, error |-> Undef]
TimerNone == [st |-> "none", ms |-> 0]

\* the first plugin at index >= k that has the hook, 0 for none
NextHook(k, hook) ==
  IF \E j \in k..Len(plugins) : hook \in plugins[j].hooks
  THEN CHOOSE j \in k..Len(plugins) :
         hook \in plugins[j].hooks /\ \A m \in k..(j - 1) : hook \notin plugins[m].hooks
  ELSE 0

Invoked(log, j, hook, arg) == Append(log, [plugin |-> j, hook |-> hook, arg |-> arg])

\* executeWorkflow, `for (const plugin of this.plugins) if (plugin.beforeStep)`
\* from plugin k on: the next beforeStep hook is called and awaited, or the
\* loop is over and workflow.execute(context, this) is called and awaited.
RunBefore(w, c, f, k, log) ==
  LET j == NextHook(k, "beforeStep")
  IN IF j # 0
     THEN [ctx |-> c, frames |-> f, wf |-> WfIdle,
           ew |-> [EwIdle EXCEPT !.pc = "before", !.k = j],
           log |-> Invoked(log, j, "beforeStep", Undef)]
     ELSE LET s == StartWorkflow(w, c, f)
          IN [ctx |-> s.ctx, frames |-> s.frames, wf |-> s.wf,
              ew |-> [EwIdle EXCEPT !.pc = "workflow"], log |-> log]

\* the afterStep loop from plugin k on, then `return result`
RunAfter(k, result, log) ==
  LET j == NextHook(k, "afterStep")
  IN IF j # 0
     THEN [ew |-> [EwIdle EXCEPT !.pc = "after", !.k = j, !.result = result],
           log |-> Invoked(log, j, "afterStep", result)]
     ELSE [ew |-> [EwIdle EXCEPT !.pc = "returned", !.result = result], log |-> log]

\* the catch block: the onError loop from plugin k on, then `throw error`
RunOnError(k, error, log) ==
  LET j == NextHook(k, "onError")
  IN IF j # 0
     THEN [ew |-> [EwIdle EXCEPT !.pc = "onError", !.k = j, !.error = error],
           log |-> Invoked(log, j, "onError", error)]
     ELSE [ew |-> [EwIdle EXCEPT !.pc = "threw", !.error = error], log |-> log]

\* SettleExecute with the `finally` block left out
SettleExecuteNoFinally(e, ok, v) ==
  IF call[e].st = "pending"
  THEN /\ call' = [call EXCEPT ![e] =
            IF ok THEN [@ EXCEPT !.st = "resolved", !.value = ContextOf(e)]
            ELSE [@ EXCEPT !.st = "rejected", !.value = v]]
       /\ events' = [events EXCEPT ![e] = Append(@,
            IF ok THEN [name |-> "execution:completed", payload |-> v]
            ELSE [name |-> "execution:failed", payload |-> v])]
       /\ UNCHANGED activeExecutions
  ELSE UNCHANGED <<call, events, activeExecutions>>

\* (this.emit is recorded as the emission itself: the orchestrator registers no
\* listener of its own events, so emit returns without throwing)
\* execute resumes after `await Promise.race([...])`, at the first of the two
\* promises to settle: 'execution:completed' and `return context`, or the
\* catch block ('execution:failed', rethrow); `finally` removes the entry.
\* A promise that settles after the race is over resumes nothing.
SettleExecute(e, ok, v) ==
  IF call[e].st = "pending"
  THEN /\ call' = [call EXCEPT ![e] =
            IF ok THEN [@ EXCEPT !.st = "resolved", !.value = ContextOf(e)]
            ELSE [@ EXCEPT !.st = "rejected", !.value = v]]
       /\ events' = [events EXCEPT ![e] = Append(@,
            IF ok THEN [name |-> "execution:completed", payload |-> v]
            ELSE [name |-> "execution:failed", payload |-> v])]
       /\ activeExecutions' = activeExecutions \ {e}
  ELSE UNCHANGED <<call, events, activeExecutions>>

\* executeWorkflow moved to position s.ew; when it has returned or thrown,
\* its promise settles and the race with it
SetEw(e, s) ==
  /\ ew' = [ew EXCEPT ![e] = s.ew]
  /\ hookLog' = [hookLog EXCEPT ![e] = s.log]
  /\ IF s.ew.pc = "returned" THEN SettleExecute(e, TRUE, s.ew.result)
     ELSE IF s.ew.pc = "threw" THEN SettleExecute(e, FALSE, s.ew.error)
          ELSE UNCHANGED <<call, events, activeExecutions>>

\* AtCapacity with > for >=
AtCapacityOffByOne == Cardinality(activeExecutions) > maxConcurrentExecutions

\* this.activeExecutions.size >= this.config.maxConcurrentExecutions
AtCapacity == Cardinality(activeExecutions) >= maxConcurrentExecutions

\* orchestrator.execute(workflowId, input, { timeout }): the calls of a
\* behaviour are numbered in the order in which they are made
Execute(e) ==
  /\ call[e].st = "idle"
  /\ \A d \in Execs : d < e => call[d].st # "idle"
  /\ \E a \in Calls :
       IF a.id \notin DOMAIN OrchWorkflows
       THEN /\ call' = [call EXCEPT ![e] =
                 [st |-> "rejected", value |-> Err("Workflow not found", <<0, e>>),
                  args |-> a]]
            /\ UNCHANGED <<workflow, ctx, frames, wf, activeExecutions, ew, timer,
                           events, hookLog>>
       ELSE IF AtCapacity
            THEN /\ call' = [call EXCEPT ![e] =
                      [st |-> "rejected",
                       value |-> Err("Maximum concurrent executions reached", <<0, e>>),
                       args |-> a]]
                 /\ UNCHANGED <<workflow, ctx, frames, wf, activeExecutions, ew, timer,
                                events, hookLog>>
            ELSE LET context == NewContext(InitialVariables(a.input))
                     s == RunBefore(OrchWorkflows[a.id], context, NoFrames, 1, <<>>)
                     ms == IF a.timeout = 0 THEN DefaultTimeout ELSE a.timeout
                 IN /\ workflow' = [workflow EXCEPT ![e] = OrchWorkflows[a.id]]
                    /\ activeExecutions' = activeExecutions \cup {e}
                    /\ events' = [events EXCEPT ![e] =
                         <<[name |-> "execution:started", payload |-> ContextOf(e)]>>]
                    /\ SetRun(e, s)
                    /\ ew' = [ew EXCEPT ![e] = s.ew]
                    /\ hookLog' = [hookLog EXCEPT ![e] = s.log]
                    /\ timer' = [timer EXCEPT ![e] = [st |-> "armed", ms |-> ms]]
                    /\ call' = [call EXCEPT ![e] =
                         [st |-> "pending", value |-> Undef, args |-> a]]
  /\ UNCHANGED libVars
  /\ UNCHANGED <<plugins, maxConcurrentExecutions, shutdownState>>

\* executeWorkflow resumes after `await plugin.beforeStep(context)`
BeforeStepComplete(e) ==
  /\ ew[e].pc = "before"
  /\ \E ok \in BOOLEAN :
       IF ok
       THEN LET s == RunBefore(workflow[e], ctx[e], frames[e], ew[e].k + 1, hookLog[e])
            IN /\ SetRun(e, s)
               /\ SetEw(e, s)
       ELSE /\ SetEw(e, [ew |-> [EwIdle EXCEPT !.pc = "threw",
                                   !.error = Err("beforeStep failed", <<0, e, ew[e].k>>)],
                         log |-> hookLog[e]])
            /\ UNCHANGED <<ctx, frames, wf>>
  /\ UNCHANGED libVars
  /\ UNCHANGED <<workflow, plugins, maxConcurrentExecutions, timer, shutdownState>>

\* executeWorkflow resumes after `await workflow.execute(context, this)`
WorkflowComplete(e) ==
  /\ ew[e].pc = "workflow"
  /\ wf[e].pc \in {"done", "failed"}
  /\ IF wf[e].pc = "done"
     THEN SetEw(e, RunAfter(1, wf[e].result, hookLog[e]))
     ELSE SetEw(e, RunOnError(1, wf[e].result, hookLog[e]))
  /\ UNCHANGED libVars
  /\ UNCHANGED <<workflow, ctx, frames, wf, plugins, maxConcurrentExecutions, timer,
                 shutdownState>>

\* executeWorkflow resumes after `await plugin.afterStep(context, result)`
AfterStepComplete(e) ==
  /\ ew[e].pc = "after"
  /\ \E ok \in BOOLEAN :
       IF ok THEN SetEw(e, RunAfter(ew[e].k + 1, ew[e].result, hookLog[e]))
       ELSE SetEw(e, RunOnError(1, Err("afterStep failed", <<0, e, ew[e].k>>), hookLog[e]))
  /\ UNCHANGED libVars
  /\ UNCHANGED <<workflow, ctx, frames, wf, plugins, maxConcurrentExecutions, timer,
                 shutdownState>>

\* executeWorkflow resumes after `await plugin.onError(context, error)`
OnErrorComplete(e) ==
  /\ ew[e].pc = "onError"
  /\ \E ok \in BOOLEAN :
       IF ok THEN SetEw(e, RunOnError(ew[e].k + 1, ew[e].error, hookLog[e]))
       ELSE SetEw(e, [ew |-> [EwIdle EXCEPT !.pc = "threw",
                                !.error = Err("onError failed", <<0, e, ew[e].k>>)],
                      log |-> hookLog[e]])
  /\ UNCHANGED libVars
  /\ UNCHANGED <<workflow, ctx, frames, wf, plugins, maxConcurrentExecutions, timer,
                 shutdownState>>

TimeoutError(e) == [t |-> "err", msg |-> "Execution timeout", ms |-> timer[e].ms, at |-> <<0, e>>]

\* TimeoutFire with the rejection reaching a call that has settled already
TimeoutFireUnguarded(e) ==
  /\ timer[e].st = "armed"
  /\ timer' = [timer EXCEPT ![e] = [@ EXCEPT !.st = "fired"]]
  /\ call' = [call EXCEPT ![e] = [@ EXCEPT !.st = "rejected", !.value = TimeoutError(e)]]
  /\ events' = [events EXCEPT ![e] =
       Append(@, [name |-> "execution:failed", payload |-> TimeoutError(e)])]
  /\ activeExecutions' = activeExecutions \ {e}
  /\ UNCHANGED libVars
  /\ UNCHANGED <<workflow, ctx, frames, wf, plugins, maxConcurrentExecutions, ew,
                 hookLog, shutdownState>>

\* the setTimeout callback of createTimeoutPromise: the promise rejects
TimeoutFire(e) ==
  /\ timer[e].st = "armed"
  /\ timer' = [timer EXCEPT ![e] = [@ EXCEPT !.st = "fired"]]
  /\ SettleExecute(e, FALSE, TimeoutError(e))
  /\ UNCHANGED libVars
  /\ UNCHANGED <<workflow, ctx, frames, wf, plugins, maxConcurrentExecutions, ew,
                 hookLog, shutdownState>>

ShutdownGraceMs == 30000

\* this.emit("orchestrator:shutdown"): timer[0] and events[0] are the timer
\* and the events of the orchestrator that belong to no execution
ShutdownEvent == [name |-> "orchestrator:shutdown", payload |-> Undef]

\* ShutdownResume leaving the entries of the unfinished executions in place
ShutdownResumeKeepsPending ==
  /\ shutdownState = "waiting"
  /\ timer[0].st = "armed"
  /\ shutdownState' = "done"
  /\ timer' = [timer EXCEPT ![0] = [@ EXCEPT !.st = "fired"]]
  /\ activeExecutions' = {e \in activeExecutions : call[e].st = "pending"}
  /\ events' = [events EXCEPT ![0] = Append(@, ShutdownEvent)]
  /\ UNCHANGED libVars
  /\ UNCHANGED <<workflow, ctx, frames, wf, plugins, maxConcurrentExecutions, call, ew,
                 hookLog>>

\* orchestrator.shutdown(): with executions in flight it awaits the 30 s
\* timer, else it clears the registry and emits at once
ShutdownCall ==
  /\ shutdownState = "idle"
  /\ IF activeExecutions # {}
     THEN /\ shutdownState' = "waiting"
          /\ timer' = [timer EXCEPT ![0] = [st |-> "armed", ms |-> ShutdownGraceMs]]
          /\ UNCHANGED <<activeExecutions, events>>
     ELSE /\ shutdownState' = "done"
          /\ activeExecutions' = {}
          /\ events' = [events EXCEPT ![0] = Append(@, ShutdownEvent)]
          /\ UNCHANGED timer
  /\ UNCHANGED libVars
  /\ UNCHANGED <<workflow, ctx, frames, wf, plugins, maxConcurrentExecutions, call, ew,
                 hookLog>>

\* shutdown resumes after the 30 s timer: this.activeExecutions.clear(), the
\* emit, and the call returns
ShutdownResume ==
  /\ shutdownState = "waiting"
  /\ timer[0].st = "armed"
  /\ shutdownState' = "done"
  /\ timer' = [timer EXCEPT ![0] = [@ EXCEPT !.st = "fired"]]
  /\ activeExecutions' = {}
  /\ events' = [events EXCEPT ![0] = Append(@, ShutdownEvent)]
  /\ UNCHANGED libVars
  /\ UNCHANGED <<workflow, ctx, frames, wf, plugins, maxConcurrentExecutions, call, ew,
                 hookLog>>

InitOrch ==
  /\ workflow = [e \in Execs |-> WorkflowCfg(<<>>, FALSE)]
  /\ ctx = [e \in Execs |-> NewContext(EmptyMap)]
  /\ frames = [e \in Execs |-> NoFrames]
  /\ wf = [e \in Execs |-> WfIdle]
  /\ plugins \in PluginLists
  /\ \E cfg \in 0..MaxCap :
       maxConcurrentExecutions = IF cfg = 0 THEN DefaultMaxConcurrentExecutions ELSE cfg
  /\ activeExecutions = {}
  /\ call = [e \in Execs |-> CallIdle]
  /\ ew = [e \in Execs |-> EwIdle]
  /\ timer = [e \in 0..MaxExecs |-> TimerNone]
  /\ events = [e \in 0..MaxExecs |-> <<>>]
  /\ hookLog = [e \in Execs |-> <<>>]
  /\ shutdownState = "idle"
  /\ LibIdle

NextOrch ==
  \/ \E e \in Execs : Execute(e)
  \/ \E e \in Execs : BeforeStepComplete(e)
  \/ \E e \in Execs : LeafComplete(e)
  \/ \E e \in Execs : StepResume(e)
  \/ \E e \in Execs : SequentialResume(e)
  \/ \E e \in Execs : RecoveryResume(e)
  \/ \E e \in Execs : WorkflowComplete(e)
  \/ \E e \in Execs : AfterStepComplete(e)
  \/ \E e \in Execs : OnErrorComplete(e)
  \/ \E e \in Execs : TimeoutFire(e)
  \/ ShutdownCall
  \/ ShutdownResume

SpecOrch == InitOrch /\ [][NextOrch]_vars

(***************************************************************************)
(* Properties of Workflow.execute and Step.execute (specification Spec).   *)
(***************************************************************************)
History(e) == ctx[e].history
\* the records made by the workflow's top-level steps, in history order
TopLevel(e) == SelectSeq(History(e), LAMBDA r : Len(r.path) = 1)
NoErrorIn(h) == \A n \in 1..Len(h) : h[n].error = Undef
Sequential(e) == ~workflow[e].parallel
StepOf(e, r) == StepAt(workflow[e], r.path)
\* a top-level record is a recovery run when the record before it failed
IsRecovery(top, k) == k > 1 /\ top[k - 1].error # Undef
\* the step the onFailure of `step` names in workflow w: its index, 0 for none
RecoveryOf(w, step) ==
  IF step.onFailure = "none" \/ \A k \in 1..Len(w.steps) : w.steps[k].id # step.onFailure
  THEN 0
  ELSE CHOOSE k \in 1..Len(w.steps) :
         w.steps[k].id = step.onFailure
         /\ \A m \in 1..Len(w.steps) : w.steps[m].id = step.onFailure => k <= m

RECURSIVE Sum(_, _)
Sum(f, k) == IF k = 0 THEN 0 ELSE f[k] + Sum(f, k - 1)

\* the Step.execute calls one failure-free execution of `step` makes
RECURSIVE CallsOf(_)
CallsOf(step) ==
  LET n == Len(step.steps)
      nested == [k \in 1..n |-> CallsOf(step.steps[k])]
      branch == IF step.condition = "true" THEN step.onSuccess ELSE step.onFailure
  IN CASE step.type = "loop" ->
            1 + (IF step.iterations = <<>> THEN 1 ELSE step.iterations[1]) * Sum(nested, n)
       [] step.type = "parallel" -> 1 + Sum(nested, n)
       [] step.type = "condition" ->
            1 + (IF \E k \in 1..n : step.steps[k].id = branch
                 THEN nested[CHOOSE k \in 1..n : step.steps[k].id = branch
                                /\ \A m \in 1..(k - 1) : step.steps[m].id # branch]
                 ELSE 0)
       [] OTHER -> 1

FinishedClean(e) == wf[e].pc = "done" /\ Sequential(e) /\ NoErrorIn(History(e))

\* C1 as stated: after a failure-free run of a sequential workflow of N
\* steps, history holds exactly N records and variables holds, under every
\* step id, the output of a step with that id.
C1_AsStated ==
  \A e \in Callers :
    FinishedClean(e) =>
      LET steps == workflow[e].steps
          h == History(e)
      IN /\ Len(h) = Len(steps)
         /\ \A k \in 1..Len(steps) :
              /\ steps[k].id \in DOMAIN ctx[e].variables
              /\ \E n \in 1..Len(h) :
                   /\ h[n].stepId = steps[k].id
                   /\ ctx[e].variables[steps[k].id] = h[n].output

\* C1 (amended): after a failure-free run of a sequential workflow of N
\* steps, history holds exactly one record per step execution: N records of
\* the top-level steps, in declaration order, plus one for every nested step
\* execution of a loop, parallel or condition step; variables holds, under
\* every step id, the output of the last declared step with that id.
C1_HistoryAndVariables ==
  \A e \in Callers :
    FinishedClean(e) =>
      LET steps == workflow[e].steps
          h == History(e)
          top == TopLevel(e)
          last(id) == CHOOSE k \in 1..Len(steps) :
                        steps[k].id = id /\ \A m \in (k + 1)..Len(steps) : steps[m].id # id
      IN /\ Len(top) = Len(steps)
         /\ \A k \in 1..Len(steps) : top[k].path = <<k>> /\ top[k].endTime
         /\ Len(h) = Sum([k \in 1..Len(steps) |-> CallsOf(steps[k])], Len(steps))
         /\ \A k \in 1..Len(steps) :
              /\ steps[k].id \in DOMAIN ctx[e].variables
              /\ ctx[e].variables[steps[k].id] = top[last(steps[k].id)].output

\* a failure-free run of a workflow with nested steps has finished
C1_Witness ==
  \E e \in Callers :
    /\ FinishedClean(e)
    /\ Len(workflow[e].steps) >= 2
    /\ Len(History(e)) > Len(workflow[e].steps)
    /\ \E k \in DOMAIN ctx[e].variables : ctx[e].variables[k] = Str("hello")

C3_Recovery ==
  \A e \in Callers :
    Sequential(e) =>
      LET top == TopLevel(e)
          w == workflow[e]
      IN \A k \in 1..Len(top) :
           LET r == RecoveryOf(w, StepOf(e, top[k]))
           IN (top[k].error # Undef /\ ~IsRecovery(top, k) /\ r # 0) =>
                /\ ~(wf[e].pc = "failed" /\ wf[e].result = top[k].error)
                /\ \/ /\ k = Len(top)
                      /\ wf[e].pc = "seq"
                      /\ top[k].path \in DOMAIN frames[e]
                      /\ frames[e][top[k].path].st = "fail"
                   \/ /\ k < Len(top)
                      /\ top[k + 1].path = <<r>>
                      /\ top[k + 1].input = top[k].error
                /\ (k + 2 <= Len(top)) =>
                      /\ top[k + 1].error = Undef
                      /\ top[k + 2].path = <<top[k].path[1] + 1>>
                      /\ top[k + 2].input = top[k + 1].output

\* a step failed, its recovery step ran on the error and the next declared
\* step received the recovery step's result
C3_Witness ==
  \E e \in Callers :
    LET top == TopLevel(e)
    IN /\ Sequential(e)
       /\ Len(top) >= 3
       /\ top[1].error # Undef
       /\ top[1].error.msg = "call failed"
       /\ top[2].input = top[1].error
       /\ top[2].path = <<3>>
       /\ top[3].path = <<2>>
       /\ top[3].input = top[2].output

\* C4: when a step of a sequential workflow throws and has no onFailure, or
\* its onFailure names no step of the workflow, or the recovery step itself
\* throws, the error propagates out of Workflow.execute and no further step
\* is executed.
C4_Propagation ==
  \A e \in Callers :
    Sequential(e) =>
      LET top == TopLevel(e)
          w == workflow[e]
      IN /\ \A k \in 1..Len(top) :
              (top[k].error # Undef
               /\ (IsRecovery(top, k) \/ RecoveryOf(w, StepOf(e, top[k])) = 0)) =>
                /\ k = Len(top)
                /\ \/ /\ wf[e].pc \in {"seq", "rec"}
                      /\ top[k].path \in DOMAIN frames[e]
                      /\ frames[e][top[k].path].st = "fail"
                   \/ /\ wf[e].pc = "failed"
                      /\ wf[e].result = top[k].error
                      /\ frames[e] = NoFrames
         /\ wf[e].pc = "failed" =>
              /\ Len(top) >= 1
              /\ top[Len(top)].error = wf[e].result
              /\ frames[e] = NoFrames

\* a recovery step threw and its error left Workflow.execute, with a
\* declared step never run
C4_Witness ==
  \E e \in Callers :
    LET top == TopLevel(e)
    IN /\ Sequential(e)
       /\ wf[e].pc = "failed"
       /\ Len(top) = 2
       /\ IsRecovery(top, 2)
       /\ wf[e].result = top[2].error
       /\ Len(workflow[e].steps) = 3

\* C5: every Step.execute call appends exactly one record for its step
\* before the type-specific work is dispatched, and when the call has
\* returned or thrown the record carries endTime and duration with its
\* output or its error; for every step type and for validation failures.
C5_OneRecordPerCall ==
  \A e \in Callers :
    LET h == History(e)
        f == frames[e]
    IN /\ \A n \in 1..Len(h) : h[n].id = n
       /\ \A p \in DOMAIN f :
            /\ f[p].rec \in 1..Len(h)
            /\ h[f[p].rec].path = p
            /\ h[f[p].rec].stepId = StepAt(workflow[e], p).id
            /\ h[f[p].rec].input = f[p].input
            /\ \A q \in DOMAIN f : f[q].rec = f[p].rec => q = p
            /\ f[p].st \in {"run", "wait", "ret", "thr"} =>
                 /\ ~h[f[p].rec].endTime /\ ~h[f[p].rec].duration
                 /\ h[f[p].rec].output = Null /\ h[f[p].rec].error = Undef
            /\ f[p].st = "done" =>
                 /\ h[f[p].rec].endTime /\ h[f[p].rec].duration
                 /\ h[f[p].rec].output = f[p].val /\ h[f[p].rec].error = Undef
            /\ f[p].st = "fail" =>
                 /\ h[f[p].rec].endTime /\ h[f[p].rec].duration
                 /\ h[f[p].rec].error = f[p].val /\ h[f[p].rec].output = Null
       /\ \A n \in 1..Len(h) :
            \/ \E p \in DOMAIN f : f[p].rec = n
            \/ /\ h[n].endTime /\ h[n].duration
               /\ (h[n].error = Undef) \/ (h[n].output = Null /\ IsErr(h[n].error))

\* a call that failed validation has thrown, beside a finished loop step
C5_Witness ==
  \E e \in Callers :
    \E p \in DOMAIN frames[e] :
      /\ frames[e][p].st = "fail"
      /\ frames[e][p].val.msg = "Loop steps required"
      /\ History(e)[frames[e][p].rec].error = frames[e][p].val
      /\ \E n \in 1..Len(History(e)) :
           History(e)[n].output.t = "list" /\ History(e)[n].endTime

(***************************************************************************)
(* Properties of AgentOrchestrator.execute (specification SpecOrch).       *)
(***************************************************************************)
\* execute call e passed admission: its timer was set
Admitted(e) == timer[e].st # "none"
CapacityError(v) == IsErr(v) /\ v.msg = "Maximum concurrent executions reached"
TimedOut(e) == call[e].st = "rejected" /\ call[e].value.msg = "Execution timeout"
EventNames(e) == [k \in 1..Len(events[e]) |-> events[e][k].name]

\* C6: the in-flight registry never holds more than maxConcurrentExecutions
\* entries: a call that arrives while it holds that many is rejected with the
\* capacity error, is not queued (it stays rejected), creates no entry and
\* emits no 'execution:started'.
C6_AdmissionControl ==
  /\ [](/\ Cardinality(activeExecutions) <= maxConcurrentExecutions
        /\ \A e \in Execs :
             (call[e].st = "rejected" /\ CapacityError(call[e].value)) =>
               /\ e \notin activeExecutions
               /\ events[e] = <<>>
               /\ ~Admitted(e)
               /\ ew[e] = EwIdle /\ wf[e] = WfIdle /\ History(e) = <<>>)
  /\ [][\A e \in Execs :
          /\ (call[e].st = "idle" /\ call'[e].st # "idle"
              /\ Cardinality(activeExecutions) >= maxConcurrentExecutions) =>
               /\ call'[e].st = "rejected"
               /\ call'[e].args.id \in DOMAIN OrchWorkflows => CapacityError(call'[e].value)
               /\ UNCHANGED <<activeExecutions, events, ew, timer, ctx, frames, wf>>
          /\ (call[e].st = "idle" /\ call'[e].st = "pending") =>
               /\ Cardinality(activeExecutions) < maxConcurrentExecutions
               /\ activeExecutions' = activeExecutions \cup {e}
          /\ (call[e].st = "rejected" /\ ~Admitted(e)) =>
               (call'[e] = call[e] /\ ~Admitted(e)')]_vars

\* a call was rejected for capacity while another execution is in flight
C6_Witness ==
  \E e \in Execs :
    /\ call[e].st = "rejected"
    /\ CapacityError(call[e].value)
    /\ Cardinality(activeExecutions) = maxConcurrentExecutions
    /\ \E d \in activeExecutions : call[d].st = "pending"

\* C7: an admitted execute call emits 'execution:started' once, then exactly
\* one of 'execution:completed' (it resolved) or 'execution:failed' (it
\* rejected), and once it has settled its id is not in the in-flight
\* registry, however it settled.
C7_EventsAndCleanup ==
  \A e \in Execs :
    /\ ~Admitted(e) => (events[e] = <<>> /\ e \notin activeExecutions)
    /\ Admitted(e) =>
         /\ call[e].st \in {"pending", "resolved", "rejected"}
         /\ call[e].st = "pending" => EventNames(e) = <<"execution:started">>
         /\ call[e].st = "resolved" =>
              /\ EventNames(e) = <<"execution:started", "execution:completed">>
              /\ e \notin activeExecutions
         /\ call[e].st = "rejected" =>
              /\ EventNames(e) = <<"execution:started", "execution:failed">>
              /\ events[e][2].payload = call[e].value
              /\ e \notin activeExecutions

\* two admitted calls have settled: one timed out, the other failed in a hook
\* or in its workflow
C7_Witness ==
  \E e, d \in Execs :
    /\ TimedOut(e)
    /\ ew[e].pc \notin {"returned", "threw"}
    /\ Admitted(d)
    /\ call[d].st = "rejected"
    /\ ew[d].pc = "threw"
    /\ ~TimedOut(d)

\* C8: when the timeout (options.timeout, else 300000 ms) expires before the
\* hooks-and-workflow sequence has finished, execute rejects with the
\* timeout error; when the sequence returns first, execute resolves with the
\* context, and the later expiry of the timer changes nothing.
C8_TimeoutRace ==
  /\ [](\A e \in Execs :
          /\ timer[e].st = "fired" => call[e].st \in {"resolved", "rejected"}
          /\ call[e].st = "pending" => ew[e].pc \notin {"returned", "threw"}
          /\ TimedOut(e) =>
               /\ timer[e].st = "fired"
               /\ call[e].value = TimeoutError(e)
               /\ timer[e].ms = IF call[e].args.timeout = 0 THEN DefaultTimeout
                                ELSE call[e].args.timeout
          /\ ew[e].pc = "returned" =>
               \/ call[e].st = "resolved" /\ call[e].value = ContextOf(e)
               \/ TimedOut(e))
  /\ [][\A e \in Execs :
          /\ (timer[e].st = "armed" /\ timer'[e].st = "fired") =>
               IF call[e].st = "pending"
               THEN call'[e].st = "rejected" /\ call'[e].value = TimeoutError(e)
               ELSE UNCHANGED <<call, events, activeExecutions, ctx, frames, wf, ew>>
          /\ (call[e].st = "pending" /\ ew[e].pc # "returned" /\ ew'[e].pc = "returned") =>
               (call'[e].st = "resolved" /\ call'[e].value = ContextOf(e))]_vars

\* a call resolved with its context and its timer expired afterwards
C8_Witness ==
  \E e \in Execs :
    /\ call[e].st = "resolved"
    /\ timer[e].st = "fired"
    /\ timer[e].ms = 5000
    /\ EventNames(e) = <<"execution:started", "execution:completed">>

\* C9 as stated: when an admitted execute call has failed (a beforeStep
\* hook threw, the workflow threw, an afterStep hook threw or the timeout
\* expired), the onError hook of every plugin that has one was invoked.
C9_OnErrorOnEveryFailure ==
  \A e \in Execs :
    (Admitted(e) /\ call[e].st = "rejected") =>
      \A j \in 1..Len(plugins) :
        "onError" \in plugins[j].hooks =>
          \E n \in 1..Len(hookLog[e]) :
            hookLog[e][n].plugin = j /\ hookLog[e][n].hook = "onError"

\* C10 as stated: once an execute call has resolved or rejected, its context
\* (variables, history and its records, stepId) is never written again.
C10_NoWriteAfterSettle ==
  [][\A e \in Execs :
       call[e].st \in {"resolved", "rejected"} => ctx'[e] = ctx[e]]_vars

(***************************************************************************)
(* Properties of the parallel step and the parallel workflow               *)
(* (specification Spec).                                                   *)
(***************************************************************************)
\* record n of e's history was made by a parallel step that has nested steps
IsParallelRun(e, n) ==
  LET step == StepOf(e, History(e)[n])
  IN step.type = "parallel" /\ Len(step.steps) > 0

\* the history index where the run of record n ends: the records of its
\* nested steps lie between n and the next record made by the same step
RunEnd(e, n) ==
  LET h == History(e)
      later == {m \in (n + 1)..Len(h) : h[m].path = h[n].path}
  IN IF later = {} THEN Len(h)
     ELSE (CHOOSE m \in later : \A i \in later : m <= i) - 1

\* the history indexes of the records nested step k made in the run of record n
KidRecords(e, n, k) ==
  {m \in (n + 1)..RunEnd(e, n) : History(e)[m].path = Append(History(e)[n].path, k)}

KidRecord(e, n, k) == CHOOSE m \in KidRecords(e, n, k) : TRUE

\* the nested steps of the run of record n that failed, in declaration order
FailedKids(e, n) ==
  LET steps == StepOf(e, History(e)[n]).steps
  IN SelectSeq([k \in 1..Len(steps) |-> k],
               LAMBDA k : History(e)[KidRecord(e, n, k)].error # Undef)

IdsOf(steps, ks) == [i \in 1..Len(ks) |-> steps[ks[i]].id]

\* the mapping the join builds from the outputs `out` of the steps `steps`:
\* an entry for every id that has a non-null output, the last such output
Joined(steps, out) ==
  LET live == {k \in 1..Len(steps) : out[k] # Null}
  IN [id \in {steps[k].id : k \in live} |->
        out[CHOOSE k \in live : steps[k].id = id
                                /\ \A m \in live : steps[m].id = id => m <= k]]

KidOutputs(e, n) ==
  [k \in 1..Len(StepOf(e, History(e)[n]).steps) |-> History(e)[KidRecord(e, n, k)].output]

\* C11: a parallel step starts all its nested steps with its own input, is
\* finalized only after every nested step has settled, and when at least one
\* nested step failed it fails with one aggregate error carrying the count
\* and exactly the ids of the failed nested steps, returning no result.
C11_ParallelStepJoin ==
  \A e \in Callers : \A n \in 1..Len(History(e)) :
    IsParallelRun(e, n) =>
      LET r == History(e)[n]
          steps == StepOf(e, r).steps
      IN /\ \A k \in 1..Len(steps) :
              /\ Cardinality(KidRecords(e, n, k)) = 1
              /\ History(e)[KidRecord(e, n, k)].input = r.input
              /\ History(e)[KidRecord(e, n, k)].stepId = steps[k].id
         /\ r.endTime =>
              /\ \A k \in 1..Len(steps) : History(e)[KidRecord(e, n, k)].endTime
              /\ IF FailedKids(e, n) # <<>>
                 THEN /\ IsErr(r.error)
                      /\ "ids" \in DOMAIN r.error
                      /\ r.error.ids = IdsOf(steps, FailedKids(e, n))
                      /\ r.error.count = Len(FailedKids(e, n))
                      /\ r.output = Null
                 ELSE r.error = Undef

\* of three nested steps A, B, C only B failed: the aggregate names exactly B
C11_Witness ==
  \E n \in 1..Len(History(1)) :
    /\ History(1)[n].stepId = "t"
    /\ IsParallelRun(1, n)
    /\ History(1)[n].endTime
    /\ IsErr(History(1)[n].error)
    /\ History(1)[n].error.ids = <<"B">>
    /\ History(1)[n].error.count = 1
    /\ History(1)[KidRecord(1, n, 1)].output = Str("hello")
    /\ History(1)[KidRecord(1, n, 3)].output = Str("hello")

\* C12 as stated: when every nested step of a parallel step succeeded, the
\* step returns a mapping with one entry for each nested step id, mapped to
\* that nested step's result, whatever the results are.
C12_AsStated ==
  \A e \in Callers : \A n \in 1..Len(History(e)) :
    (IsParallelRun(e, n) /\ History(e)[n].endTime /\ FailedKids(e, n) = <<>>) =>
      LET r == History(e)[n]
          steps == StepOf(e, r).steps
      IN /\ r.output.t = "map"
         /\ DOMAIN r.output.m = {steps[k].id : k \in 1..Len(steps)}
         /\ \A k \in 1..Len(steps) :
              steps[k].id \in DOMAIN r.output.m
              /\ r.output.m[steps[k].id] = KidOutputs(e, n)[k]

\* C12: when every nested step of a parallel step succeeded, the step
\* returns a mapping that has one entry for each nested step id whose result
\* is not null, mapped to the result of the last declared nested step with
\* that id and a non-null result; a nested step that returned null has no
\* entry.  The mapping does not depend on the order of completion.
C12_JoinOfNonNullResults ==
  \A e \in Callers : \A n \in 1..Len(History(e)) :
    (IsParallelRun(e, n) /\ History(e)[n].endTime /\ FailedKids(e, n) = <<>>) =>
      /\ History(e)[n].output.t = "map"
      /\ History(e)[n].output.m = Joined(StepOf(e, History(e)[n]).steps, KidOutputs(e, n))

\* both nested steps of "p" succeeded, "y" with null: the mapping holds "x" only
C12_Witness ==
  \E n \in 1..Len(History(1)) :
    /\ History(1)[n].stepId = "p"
    /\ IsParallelRun(1, n)
    /\ History(1)[n].endTime
    /\ FailedKids(1, n) = <<>>
    /\ History(1)[KidRecord(1, n, 2)].output = Null
    /\ History(1)[n].output = MapV("x" :> Str("hello"))

ParallelRun(e) == workflow[e].parallel /\ wf[e].pc # "idle"
TopOutputs(e) == [k \in 1..Len(workflow[e].steps) |-> History(e)[k].output]
TopFailed(e) ==
  SelectSeq([k \in 1..Len(workflow[e].steps) |-> k], LAMBDA k : History(e)[k].error # Undef)

\* C13 as stated: when all steps of a parallel workflow succeeded,
\* context.variables[step.id] equals each step's result and the returned
\* mapping has each step id mapped to its result.
C13_AsStated ==
  \A e \in Callers :
    (ParallelRun(e) /\ wf[e].pc = "done") =>
      \A k \in 1..Len(workflow[e].steps) :
        LET id == workflow[e].steps[k].id
        IN /\ id \in DOMAIN ctx[e].variables
           /\ ctx[e].variables[id] = TopOutputs(e)[k]
           /\ id \in DOMAIN wf[e].result.m
           /\ wf[e].result.m[id] = TopOutputs(e)[k]

\* C13: in a parallel workflow every top-level step is started with
\* context.variables.input before any of them is awaited; when all
\* succeeded, the returned mapping has one entry for each step id with a
\* non-null result (the result of the last declared such step), the same
\* entries are written to context.variables, a step that returned null has
\* no entry and leaves context.variables as it was, and the mapping is the
\* same for every interleaving of the branches.
C13_ParallelWorkflow ==
  \A e \in Callers :
    ParallelRun(e) =>
      /\ Len(History(e)) = Len(workflow[e].steps)
      /\ \A k \in 1..Len(workflow[e].steps) :
           /\ History(e)[k].path = <<k>>
           /\ History(e)[k].input = InputOf(ctx[e])
      /\ wf[e].pc = "done" =>
           /\ TopFailed(e) = <<>>
           /\ wf[e].result = MapV(Joined(workflow[e].steps, TopOutputs(e)))
           /\ DOMAIN ctx[e].variables = DOMAIN wf[e].result.m \cup {"input"}
           /\ \A id \in DOMAIN wf[e].result.m : ctx[e].variables[id] = wf[e].result.m[id]

\* three branches of a parallel workflow succeeded, the last one with null
C13_Witness ==
  /\ ParallelRun(1)
  /\ wf[1].pc = "done"
  /\ Len(workflow[1].steps) = 3
  /\ TopOutputs(1) = <<Str("hello"), Str("hello"), Null>>
  /\ ctx[1].variables["a"] = Str("hello")
  /\ ctx[1].variables["b"] = Str("hello")

MaxAttempts == 3       \* largest options.maxAttempts

DefaultBackoffMultiplier == 2
DefaultMaxBackoffMs == 30000

\* a number given as a fraction: backoffMultiplier may be any number
Frac(num, den) == [num |-> num, den |-> den]

RECURSIVE Pow(_, _)
Pow(b, n) == IF n = 0 THEN 1 ELSE b * Pow(b, n - 1)

Min(a, b) == IF a <= b THEN a ELSE b

\* RetryOptions; an optional field is <<>> when not given, <<x>> when given
RetryOptions(maxAttempts, backoffMs, backoffMultiplier, maxBackoffMs, onRetry) ==
  [maxAttempts |-> maxAttempts, backoffMs |-> backoffMs,
   backoffMultiplier |-> backoffMultiplier, maxBackoffMs |-> maxBackoffMs,
   onRetry |-> onRetry]

\* the options withRetry is called with; the backoffMs of an option with a
\* fractional multiplier is a multiple of the denominator's powers, so that
\* every delay is a whole number
OptionsSet ==
  { RetryOptions(n, b[1], b[2], b[3], cb) :
      n \in 0..MaxAttempts,
      b \in { <<100, <<>>, <<>>>>,
              <<100, <<Frac(3, 1)>>, <<250>>>>,
              <<20000, <<Frac(0, 1)>>, <<0>>>>,
              <<800, <<Frac(1, 2)>>, <<>>>>,
              <<0, <<Frac(1, 1)>>, <<500>>>> },
      cb \in BOOLEAN }

\* options.backoffMultiplier || 2
Multiplier(o) ==
  IF o.backoffMultiplier = <<>> \/ o.backoffMultiplier[1].num = 0
  THEN Frac(DefaultBackoffMultiplier, 1)
  ELSE o.backoffMultiplier[1]

\* options.maxBackoffMs || 30000
MaxBackoff(o) ==
  IF o.maxBackoffMs = <<>> \/ o.maxBackoffMs[1] = 0 THEN DefaultMaxBackoffMs
  ELSE o.maxBackoffMs[1]

\* BackoffMs without the Math.min against maxBackoffMs
BackoffMsUncapped(o, a) ==
  (o.backoffMs * Pow(Multiplier(o).num, a - 1)) \div Pow(Multiplier(o).den, a - 1)

\* Math.min(options.backoffMs * Math.pow(options.backoffMultiplier || 2,
\*          attempt - 1), options.maxBackoffMs || 30000)
BackoffMs(o, a) ==
  Min((o.backoffMs * Pow(Multiplier(o).num, a - 1)) \div Pow(Multiplier(o).den, a - 1),
      MaxBackoff(o))

\* the error fn throws on its a-th invocation: each one a new object
FnError(a) == Err("fn failed", <<a>>)

restOfRetry == <<engineVars, orchVars, agentVars, pmVars, builtinVars>>

\* the loop of withRetry at `attempt <= options.maxAttempts`: fn is invoked,
\* or the loop is over and `throw lastError!` runs
RetryLoop(a, log) ==
  IF a <= options.maxAttempts
  THEN /\ retryPc' = "calling"
       /\ retryLog' = Append(log, [ev |-> "fn", attempt |-> a])
       /\ retryResult' = retryResult
  ELSE /\ retryPc' = "threw"
       /\ retryLog' = log
       /\ retryResult' = lastError

\* withRetry(fn, options) is called
WithRetry ==
  /\ retryPc = "idle"
  /\ attempt' = 1
  /\ RetryLoop(1, retryLog)
  /\ UNCHANGED <<options, lastError>>
  /\ UNCHANGED restOfRetry

\* fn() resolved: `return await fn()`
FnResolve ==
  /\ retryPc = "calling"
  /\ \E v \in Outputs :
       /\ retryPc' = "returned"
       /\ retryResult' = v
  /\ UNCHANGED <<options, attempt, lastError, retryLog>>
  /\ UNCHANGED restOfRetry

\* FnReject that rethrows the error of the first attempt
FnRejectFirstError ==
  /\ retryPc = "calling"
  /\ lastError' = FnError(attempt)
  /\ IF attempt = options.maxAttempts
     THEN /\ retryPc' = "threw"
          /\ retryResult' = FnError(1)
          /\ UNCHANGED retryLog
     ELSE /\ retryPc' = "backoff"
          /\ retryLog' = retryLog
               \o (IF options.onRetry
                   THEN <<[ev |-> "onRetry", attempt |-> attempt, error |-> FnError(attempt)]>>
                   ELSE <<>>)
               \o <<[ev |-> "wait", attempt |-> attempt, ms |-> BackoffMs(options, attempt)]>>
          /\ UNCHANGED retryResult
  /\ UNCHANGED <<options, attempt>>
  /\ UNCHANGED restOfRetry

\* FnReject without the onRetry call
FnRejectSilent ==
  /\ retryPc = "calling"
  /\ lastError' = FnError(attempt)
  /\ IF attempt = options.maxAttempts
     THEN /\ retryPc' = "threw"
          /\ retryResult' = FnError(attempt)
          /\ UNCHANGED retryLog
     ELSE /\ retryPc' = "backoff"
          /\ retryLog' = Append(retryLog,
               [ev |-> "wait", attempt |-> attempt, ms |-> BackoffMs(options, attempt)])
          /\ UNCHANGED retryResult
  /\ UNCHANGED <<options, attempt>>
  /\ UNCHANGED restOfRetry

\* fn() rejected: the catch block up to its `throw` or its `await` of the
\* backoff timer
FnReject ==
  /\ retryPc = "calling"
  /\ lastError' = FnError(attempt)
  /\ IF attempt = options.maxAttempts
     THEN /\ retryPc' = "threw"
          /\ retryResult' = FnError(attempt)
          /\ UNCHANGED retryLog
     ELSE /\ retryPc' = "backoff"
          /\ retryLog' = retryLog
               \o (IF options.onRetry
                   THEN <<[ev |-> "onRetry", attempt |-> attempt, error |-> FnError(attempt)]>>
                   ELSE <<>>)
               \o <<[ev |-> "wait", attempt |-> attempt, ms |-> BackoffMs(options, attempt)]>>
          /\ UNCHANGED retryResult
  /\ UNCHANGED <<options, attempt>>
  /\ UNCHANGED restOfRetry

\* the backoff timer fired: attempt++ and the loop goes round
BackoffElapsed ==
  /\ retryPc = "backoff"
  /\ attempt' = attempt + 1
  /\ RetryLoop(attempt + 1, retryLog)
  /\ UNCHANGED <<options, lastError>>
  /\ UNCHANGED restOfRetry

InitRetry ==
  /\ workflow = [e \in Execs |-> WorkflowCfg(<<>>, FALSE)]
  /\ ctx = [e \in Execs |-> NewContext(EmptyMap)]
  /\ frames = [e \in Execs |-> NoFrames]
  /\ wf = [e \in Execs |-> WfIdle]
  /\ OrchIdle
  /\ BuiltinIdle
  /\ AgentIdle
  /\ PmIdle
  /\ options \in OptionsSet
  /\ attempt = 0
  /\ lastError = Undef
  /\ retryPc = "idle"
  /\ retryLog = <<>>
  /\ retryResult = Undef

NextRetry ==
  \/ WithRetry
  \/ FnResolve
  \/ FnReject
  \/ BackoffElapsed

SpecRetry == InitRetry /\ [][NextRetry]_vars

(***************************************************************************)
(* Properties of withRetry (specification SpecRetry).                      *)
(***************************************************************************)
LogOf(ev) == SelectSeq(retryLog, LAMBDA x : x.ev = ev)
\* the number of times fn has failed
Failures == Len(LogOf("fn")) - (IF retryPc \in {"calling", "returned"} THEN 1 ELSE 0)

\* C15: withRetry on an operation that fails k times and then succeeds,
\* k < maxAttempts, invokes it exactly k+1 times, calls onRetry exactly k
\* times, with the attempt numbers 1..k and the errors of those attempts,
\* and returns the successful result.
C15_SuccessAfterFailures ==
  retryPc = "returned" =>
    LET k == Failures
    IN /\ k < options.maxAttempts
       /\ LogOf("fn") = [a \in 1..(k + 1) |-> [ev |-> "fn", attempt |-> a]]
       /\ options.onRetry =>
            LogOf("onRetry") =
              [a \in 1..k |-> [ev |-> "onRetry", attempt |-> a, error |-> FnError(a)]]
       /\ retryResult \in Outputs
       /\ ~IsErr(retryResult)

\* the operation failed twice and succeeded on the third attempt
C15_Witness ==
  /\ retryPc = "returned"
  /\ options.maxAttempts = 3
  /\ options.onRetry
  /\ Len(LogOf("fn")) = 3
  /\ Len(LogOf("onRetry")) = 2
  /\ retryResult = Str("hello")

\* C16: withRetry on an operation that fails on every attempt invokes it
\* exactly maxAttempts times, calls onRetry exactly maxAttempts-1 times,
\* waits after no attempt but the first maxAttempts-1, and throws the very
\* error object the final attempt threw.
C16_Exhaustion ==
  (retryPc = "threw" /\ options.maxAttempts >= 1) =>
    /\ Len(LogOf("fn")) = options.maxAttempts
    /\ options.onRetry => Len(LogOf("onRetry")) = options.maxAttempts - 1
    /\ LogOf("wait") =
         [a \in 1..(options.maxAttempts - 1) |->
            [ev |-> "wait", attempt |-> a, ms |-> LogOf("wait")[a].ms]]
    /\ retryLog[Len(retryLog)] = [ev |-> "fn", attempt |-> options.maxAttempts]
    /\ retryResult = FnError(options.maxAttempts)
    /\ retryResult = lastError

\* three attempts failed: the third error is thrown after two waits
C16_Witness ==
  /\ retryPc = "threw"
  /\ options.maxAttempts = 3
  /\ options.onRetry
  /\ Len(LogOf("fn")) = 3
  /\ Len(LogOf("wait")) = 2
  /\ retryResult = FnError(3)

\* after every failed attempt a < maxAttempts, onRetry(a, error) is called
\* and then the wait is min(backoffMs * backoffMultiplier^(a-1), maxBackoffMs),
\* with the defaults 2 and 30000
DelaysAsSpecified ==
  \A n \in 1..Len(retryLog) :
    retryLog[n].ev = "wait" =>
      LET a == retryLog[n].attempt
          m == IF options.backoffMultiplier \in {<<>>, <<Frac(0, 1)>>}
               THEN Frac(2, 1) ELSE options.backoffMultiplier[1]
          cap == IF options.maxBackoffMs \in {<<>>, <<0>>} THEN 30000
                 ELSE options.maxBackoffMs[1]
      IN /\ a < options.maxAttempts
         /\ retryLog[n].ms * Pow(m.den, a - 1) =
              Min(options.backoffMs * Pow(m.num, a - 1), cap * Pow(m.den, a - 1))
         /\ retryLog[n].ms <= cap
         /\ options.onRetry =>
              retryLog[n - 1] = [ev |-> "onRetry", attempt |-> a, error |-> FnError(a)]
         /\ ~options.onRetry => retryLog[n - 1] = [ev |-> "fn", attempt |-> a]

DelaysNonDecreasing ==
  \A i, j \in 1..Len(LogOf("wait")) : i <= j => LogOf("wait")[i].ms <= LogOf("wait")[j].ms

DefaultAgentMaxAttempts == 3
DefaultAgentBackoffMs == 1000
DefaultTimeoutMs == 60000
AgentBackoffBase == 2

\* RetryConfig; an optional field is <<>> when not given, <<x>> when given
RetryConfig(maxAttempts, backoffMs, backoffMultiplier, maxBackoffMs) ==
  [maxAttempts |-> maxAttempts, backoffMs |-> backoffMs,
   backoffMultiplier |-> backoffMultiplier, maxBackoffMs |-> maxBackoffMs]

\* AgentConfig, reduced to the fields the retry loop and the tool calls use
AgentConfig(retryConfig, timeoutMs, tools) ==
  [retryConfig |-> retryConfig, timeoutMs |-> timeoutMs, tools |-> tools]

AgentTools == {"lookup", "calc"}

AgentConfigs ==
  { AgentConfig(<<>>, <<>>, AgentTools),
    AgentConfig(<<RetryConfig(3, 20000, <<>>, <<>>)>>, <<5000>>, AgentTools),
    AgentConfig(<<RetryConfig(2, 100, <<Frac(3, 1)>>, <<150>>)>>, <<>>, AgentTools),
    AgentConfig(<<RetryConfig(1, 100, <<>>, <<>>)>>, <<>>, {"lookup"}),
    AgentConfig(<<RetryConfig(0, 100, <<>>, <<>>)>>, <<>>, {}) }

\* new Agent(config): the defaults of the constructor
NewAgent(config) ==
  [retryConfig |-> IF config.retryConfig = <<>>
                   THEN RetryConfig(DefaultAgentMaxAttempts, DefaultAgentBackoffMs, <<>>, <<>>)
                   ELSE config.retryConfig[1],
   timeoutMs |-> IF config.timeoutMs = <<>> THEN DefaultTimeoutMs ELSE config.timeoutMs[1],
   tools |-> config.tools]

\* one match of /\[TOOL:(\w+)\](.*?)\[\/TOOL\]/ in a response: the tool name
\* and whether JSON.parse accepts the argument text
Match(tool, parses) == [tool |-> tool, parses |-> parses]

\* the model responses, as the sequences of their tool-call matches
Responses ==
  { <<>>,
    <<Match("lookup", TRUE)>>,
    <<Match("lookup", FALSE), Match("calc", TRUE)>>,
    <<Match("ghost", TRUE), Match("lookup", TRUE), Match("lookup", TRUE)>> }

restOfAgent == <<engineVars, orchVars, retryVars, pmVars, builtinVars>>

\* the for loop of executeWithRetry at `attempt <= maxAttempts`: the model
\* is invoked and raced against the timeout, or the loop is over and
\* `throw lastError || new Error("All retry attempts failed")` runs
AgentLoop(a, err) ==
  IF a <= agent.retryConfig.maxAttempts
  THEN /\ agentPc' = "model"
       /\ agentLog' = Append(agentLog, [ev |-> "generateText", attempt |-> a])
       /\ agentResult' = agentResult
  ELSE /\ agentPc' = "threw"
       /\ agentLog' = agentLog
       /\ agentResult' = IF err = Null THEN Err("All retry attempts failed", <<0>>) ELSE err

\* agent.execute(prompt, context) is called
AgentExecute ==
  /\ agentPc = "idle"
  /\ agentAttempt' = 1
  /\ AgentLoop(1, agentLastError)
  /\ UNCHANGED <<agent, agentLastError, response, matchIndex, toolCalls>>
  /\ UNCHANGED restOfAgent

\* the while loop of processToolCalls from match k on, up to the first
\* `await tool.handler(args, context)` or to the end of the matches: a match
\* of an unregistered tool is skipped, one whose arguments do not parse
\* pushes {tool, error}
RECURSIVE ProcessFrom(_, _, _)
ProcessFrom(resp, k, calls) ==
  IF k > Len(resp) THEN [pc |-> "returned", k |-> k, calls |-> calls]
  ELSE IF resp[k].tool \notin agent.tools THEN ProcessFrom(resp, k + 1, calls)
       ELSE IF ~resp[k].parses
            THEN ProcessFrom(resp, k + 1,
                   Append(calls, [tool |-> resp[k].tool, error |-> "parse error"]))
            ELSE [pc |-> "tool", k |-> k, calls |-> calls]

SetProcess(resp, p, log) ==
  /\ agentPc' = p.pc
  /\ matchIndex' = p.k
  /\ toolCalls' = p.calls
  /\ agentLog' = IF p.pc = "tool"
                 THEN Append(log, [ev |-> "handler", match |-> p.k])
                 ELSE log
  /\ agentResult' = IF p.pc = "returned"
                    THEN [response |-> resp, toolCalls |-> p.calls]
                    ELSE agentResult

\* generateText resolved before the timeout: processToolCalls starts
ModelResolve ==
  /\ agentPc = "model"
  /\ \E resp \in Responses :
       /\ response' = resp
       /\ SetProcess(resp, ProcessFrom(resp, 1, <<>>), agentLog)
  /\ UNCHANGED <<agent, agentAttempt, agentLastError>>
  /\ UNCHANGED restOfAgent

\* the error a failed attempt leaves in the catch block
AttemptError(kind, a) ==
  IF kind = "timeout"
  THEN [t |-> "err", msg |-> "Agent execution timeout", ms |-> agent.timeoutMs, at |-> <<a>>]
  ELSE Err("generateText failed", <<a>>)

\* this.retryConfig.backoffMs * Math.pow(2, attempt - 1)
AgentBackoffMs(a) == agent.retryConfig.backoffMs * Pow(AgentBackoffBase, a - 1)

\* generateText rejected, or the timeout promise rejected first: the catch
\* block of executeWithRetry
ModelFail ==
  /\ agentPc = "model"
  /\ \E kind \in {"rejected", "timeout"} :
       LET err == AttemptError(kind, agentAttempt)
       IN /\ agentLastError' = err
          /\ IF agentAttempt < agent.retryConfig.maxAttempts
             THEN /\ agentPc' = "backoff"
                  /\ agentLog' = Append(agentLog,
                       [ev |-> "wait", attempt |-> agentAttempt,
                        ms |-> AgentBackoffMs(agentAttempt)])
                  /\ UNCHANGED <<agentAttempt, agentResult>>
             ELSE /\ agentAttempt' = agentAttempt + 1
                  /\ AgentLoop(agentAttempt + 1, err)
  /\ UNCHANGED <<agent, response, matchIndex, toolCalls>>
  /\ UNCHANGED restOfAgent

\* the backoff timer fired: attempt++ and the loop goes round
AgentBackoffElapsed ==
  /\ agentPc = "backoff"
  /\ agentAttempt' = agentAttempt + 1
  /\ AgentLoop(agentAttempt + 1, agentLastError)
  /\ UNCHANGED <<agent, agentLastError, response, matchIndex, toolCalls>>
  /\ UNCHANGED restOfAgent

\* ToolHandlerComplete with a handler failure leaving processToolCalls and
\* reaching the catch block of the retry loop
ToolHandlerCompleteRethrow ==
  /\ agentPc = "tool"
  /\ \E ok \in BOOLEAN : \E v \in Outputs :
       IF ok
       THEN /\ SetProcess(response,
                 ProcessFrom(response, matchIndex + 1,
                   Append(toolCalls, [tool |-> response[matchIndex].tool,
                                      args |-> <<matchIndex>>, result |-> v])),
                 Append(agentLog, [ev |-> "handled", match |-> matchIndex, ok |-> TRUE]))
            /\ UNCHANGED <<agentAttempt, agentLastError>>
       ELSE /\ agentLastError' = Err("handler failed", <<matchIndex>>)
            /\ agentAttempt' = agentAttempt + 1
            /\ IF agentAttempt + 1 <= agent.retryConfig.maxAttempts
               THEN /\ agentPc' = "model"
                    /\ agentLog' = agentLog
                         \o <<[ev |-> "handled", match |-> matchIndex, ok |-> FALSE],
                              [ev |-> "generateText", attempt |-> agentAttempt + 1]>>
                    /\ UNCHANGED agentResult
               ELSE /\ agentPc' = "threw"
                    /\ agentLog' = Append(agentLog,
                         [ev |-> "handled", match |-> matchIndex, ok |-> FALSE])
                    /\ agentResult' = Err("handler failed", <<matchIndex>>)
            /\ UNCHANGED <<matchIndex, toolCalls>>
  /\ UNCHANGED <<agent, response>>
  /\ UNCHANGED restOfAgent

\* tool.handler(args, context) settled: {tool, args, result} or, from the
\* catch block, {tool, error} is pushed and the while loop goes on
ToolHandlerComplete ==
  /\ agentPc = "tool"
  /\ \E ok \in BOOLEAN : \E v \in Outputs :
       SetProcess(response,
         ProcessFrom(response, matchIndex + 1,
           Append(toolCalls,
             IF ok THEN [tool |-> response[matchIndex].tool,
                         args |-> <<matchIndex>>, result |-> v]
             ELSE [tool |-> response[matchIndex].tool, error |-> "handler failed"])),
         Append(agentLog, [ev |-> "handled", match |-> matchIndex, ok |-> ok]))
  /\ UNCHANGED <<agent, agentAttempt, agentLastError, response>>
  /\ UNCHANGED restOfAgent

InitAgent ==
  /\ workflow = [e \in Execs |-> WorkflowCfg(<<>>, FALSE)]
  /\ ctx = [e \in Execs |-> NewContext(EmptyMap)]
  /\ frames = [e \in Execs |-> NoFrames]
  /\ wf = [e \in Execs |-> WfIdle]
  /\ OrchIdle
  /\ BuiltinIdle
  /\ RetryIdle
  /\ PmIdle
  /\ \E config \in AgentConfigs : agent = NewAgent(config)
  /\ agentPc = "idle"
  /\ agentAttempt = 0
  /\ agentLastError = Null
  /\ agentLog = <<>>
  /\ response = <<>>
  /\ matchIndex = 0
  /\ toolCalls = <<>>
  /\ agentResult = Undef

NextAgent ==
  \/ AgentExecute
  \/ ModelResolve
  \/ ModelFail
  \/ AgentBackoffElapsed
  \/ ToolHandlerComplete

SpecAgent == InitAgent /\ [][NextAgent]_vars

(***************************************************************************)
(* Properties of Agent.execute (specification SpecAgent).                  *)
(***************************************************************************)
AgentLogOf(ev) == SelectSeq(agentLog, LAMBDA x : x.ev = ev)

\* C18 as stated: Agent.execute retries the model call with withRetry's
\* policy on the Agent's retryConfig: at most maxAttempts invocations, the
\* delay min(backoffMs * backoffMultiplier^(attempt-1), maxBackoffMs)
\* between consecutive attempts, and the last attempt's error thrown when
\* the attempts are used up.
C18_WithRetryPolicy ==
  /\ Len(AgentLogOf("generateText")) <= agent.retryConfig.maxAttempts
  /\ \A n \in 1..Len(agentLog) :
       agentLog[n].ev = "wait" =>
         /\ agentLog[n].attempt < agent.retryConfig.maxAttempts
         /\ agentLog[n].ms = BackoffMs(agent.retryConfig, agentLog[n].attempt)
  /\ (agentPc = "threw" /\ agent.retryConfig.maxAttempts >= 1) =>
       /\ agentResult = agentLastError
       /\ agentResult.at = <<agent.retryConfig.maxAttempts>>

\* the registered matches of the response up to index k, in order
RECURSIVE RegisteredMatches(_, _)
RegisteredMatches(resp, k) ==
  IF k = 0 THEN <<>>
  ELSE RegisteredMatches(resp, k - 1)
       \o (IF resp[k].tool \in agent.tools THEN <<k>> ELSE <<>>)

\* the handler of match k was called and succeeded / failed
Handled(k, ok) == \E n \in 1..Len(agentLog) :
  agentLog[n] = [ev |-> "handled", match |-> k, ok |-> ok]

\* C19: tool-call post-processing makes, in order of occurrence, one entry
\* for every match of a registered tool and none for an unregistered one:
\* {tool, args, result} when the arguments parse and the handler succeeds,
\* {tool, error} when the arguments do not parse or the handler throws; a
\* tool failure neither fails the Agent call nor starts another model
\* attempt.
C19_ToolCallEntries ==
  /\ [](agentPc \in {"tool", "returned"} =>
          LET done == IF agentPc = "returned" THEN Len(response) ELSE matchIndex - 1
              reg == RegisteredMatches(response, done)
          IN /\ Len(toolCalls) = Len(reg)
             /\ \A i \in 1..Len(reg) :
                  LET m == response[reg[i]]
                      c == toolCalls[i]
                  IN /\ c.tool = m.tool
                     /\ ~m.parses => c = [tool |-> m.tool, error |-> "parse error"]
                     /\ (m.parses /\ Handled(reg[i], TRUE)) =>
                          /\ DOMAIN c = {"tool", "args", "result"}
                          /\ c.args = <<reg[i]>>
                          /\ c.result \in Outputs
                     /\ (m.parses /\ Handled(reg[i], FALSE)) =>
                          c = [tool |-> m.tool, error |-> "handler failed"]
                     /\ m.parses => (Handled(reg[i], TRUE) \/ Handled(reg[i], FALSE))
             /\ agentPc = "returned" =>
                  agentResult = [response |-> response, toolCalls |-> toolCalls])
  /\ [][agentPc = "tool" =>
          /\ agentPc' \in {"tool", "returned"}
          /\ AgentLogOf("generateText")' = AgentLogOf("generateText")
          /\ agentAttempt' = agentAttempt]_vars

\* the call returned after one parse failure and one handler failure
C19_Witness ==
  /\ agentPc = "returned"
  /\ Len(AgentLogOf("generateText")) = 1
  /\ toolCalls = <<[tool |-> "lookup", error |-> "parse error"],
                   [tool |-> "calc", error |-> "handler failed"]>>

(***************************************************************************)
(* PluginManager (src/plugins/manager.ts) and BasePlugin                   *)
(***************************************************************************)
MaxPmCalls == 5        \* registerPlugin / unregisterPlugin calls in a behaviour

DefaultMaxPlugins == 50
DefaultPriority == 0

\* the hook names of registerPluginHooks' hookMethods that the model's
\* plugins implement, in the order of that list
HookMethods == <<"beforeAgentExecution", "beforeStep", "onError", "onAgentError">>

\* a plugin object: metadata.name, the hook methods it has, whether it has
\* validate (and what it answers) and cleanup
PluginObj(name, methods, validate, cleanup) ==
  [name |-> name, hooks |-> methods, validate |-> validate, cleanup |-> cleanup]

\* new BasePlugin(metadata, config): { enabled: true, priority: 0, ...config }
NewPluginConfig(priority) ==
  [enabled |-> TRUE, priority |-> IF priority = <<>> THEN DefaultPriority ELSE priority[1]]

\* the plugin objects of a behaviour and the priorities they are built with
PluginSetups ==
  { [objs |-> <<PluginObj("cache", {"beforeAgentExecution", "onError"}, "none", FALSE),
                PluginObj("metrics", {"beforeStep", "onError"}, "none", FALSE),
                PluginObj("limiter", {"beforeAgentExecution", "beforeStep", "onError"},
                          "none", FALSE)>>,
     prio |-> <<<<5>>, <<5>>, <<5>>>>],
    [objs |-> <<PluginObj("cache", {"beforeStep", "onError"}, "valid", TRUE),
                PluginObj("metrics", {"beforeStep", "onError"}, "none", FALSE),
                PluginObj("limiter", {"beforeStep"}, "none", TRUE)>>,
     prio |-> <<<<>>, <<10>>, <<>>>>],
    [objs |-> <<PluginObj("cache", {"onError"}, "none", FALSE),
                PluginObj("cache", {"onError", "beforeStep"}, "valid", FALSE),
                PluginObj("audit", {"onError"}, "invalid", FALSE)>>,
     prio |-> <<<<1>>, <<2>>, <<2>>>>] }

PmConfigs ==
  { [maxPlugins |-> DefaultMaxPlugins, enableValidation |-> TRUE, orchestrator |-> FALSE],
    [maxPlugins |-> 2, enableValidation |-> TRUE, orchestrator |-> TRUE] }

\* plugin.getPriority(): this.config.priority ?? 0
GetPriority(o) == pluginConfig[o].priority

\* Map.has / Map.get / Map.set / Map.delete on this.plugins, a sequence of
\* [name, plugin] in insertion order
MapHas(m, name) == \E i \in 1..Len(m) : m[i].name = name
MapGet(m, name) == (CHOOSE i \in 1..Len(m) : m[i].name = name)
MapSet(m, name, o) ==
  IF MapHas(m, name)
  THEN [i \in 1..Len(m) |-> IF m[i].name = name THEN [name |-> name, plugin |-> o] ELSE m[i]]
  ELSE Append(m, [name |-> name, plugin |-> o])
MapDelete(m, name) == SelectSeq(m, LAMBDA x : x.name # name)

\* SortByPriority that leaves the list as it is
Unsorted(list) == list

\* x placed into a list sorted by descending priority, behind every entry
\* whose priority is not lower
RECURSIVE InsertByPriority(_, _)
InsertByPriority(sorted, x) ==
  IF sorted = <<>> THEN <<x>>
  ELSE IF Head(sorted).priority >= x.priority
       THEN <<Head(sorted)>> \o InsertByPriority(Tail(sorted), x)
       ELSE <<x>> \o sorted

RECURSIVE SortFrom(_, _)
SortFrom(list, acc) ==
  IF list = <<>> THEN acc ELSE SortFrom(Tail(list), InsertByPriority(acc, Head(list)))

\* list.sort((a, b) => b.priority - a.priority): Array.prototype.sort is
\* stable (ECMAScript 2019), entries of equal priority keep their order
SortByPriority(list) == SortFrom(list, <<>>)

\* registerPluginHooks(plugin): for every hook method the plugin has, in the
\* order of hookMethods, push {plugin, priority} and sort the list.  seq is
\* not a field of the program's entry: it is the number of the registration
\* that made the entry, so it orders the entries by the time their plugins
\* were registered.
RECURSIVE RegisterPluginHooks(_, _, _, _)
RegisterPluginHooks(h, o, seq, k) ==
  IF k > Len(HookMethods) THEN h
  ELSE LET hookName == HookMethods[k]
           list == IF hookName \in DOMAIN h THEN h[hookName] ELSE <<>>
           entry == [plugin |-> o, priority |-> GetPriority(o), seq |-> seq]
       IN RegisterPluginHooks(
            IF hookName \in pluginObjs[o].hooks
            THEN (hookName :> SortByPriority(Append(list, entry))) @@ h
            ELSE h,
            o, seq, k + 1)

\* unregisterPluginHooks(plugin): the plugin's entries are filtered out of
\* every list and a list left empty is deleted
UnregisterPluginHooks(h, o) ==
  LET filtered(hookName) == SelectSeq(h[hookName], LAMBDA x : x.plugin # o)
      kept == {hookName \in DOMAIN h : filtered(hookName) # <<>>}
  IN [hookName \in kept |-> filtered(hookName)]

restOfPm == <<engineVars, orchVars, retryVars, agentVars, builtinVars>>

Logged(n, op, o, outcome) ==
  /\ pmLast' = [call |-> n, op |-> op, plugin |-> o, outcome |-> outcome]
  /\ pmSeq' = IF outcome = "registered" THEN pmSeq + 1 ELSE pmSeq

\* the tail of registerPlugin: this.plugins.set(name, plugin);
\* this.registerPluginHooks(plugin)
CompleteRegister(n, o) ==
  /\ pmPlugins' = MapSet(pmPlugins, pluginObjs[o].name, o)
  /\ pmHooks' = RegisterPluginHooks(pmHooks, o, pmSeq + 1, 1)
  /\ Logged(n, "register", o, "registered")

\* registerPlugin after `await plugin.validate()` returned valid, or when no
\* validation runs: initialize is awaited when the orchestrator is set
AfterValidate(n, o, calls) ==
  IF pmConfig.orchestrator
  THEN /\ pmCalls' = calls \cup {[n |-> n, op |-> "register", plugin |-> o,
                                  phase |-> "initialize"]}
       /\ UNCHANGED <<pmPlugins, pmHooks, pmSeq, pmLast>>
  ELSE /\ pmCalls' = calls
       /\ CompleteRegister(n, o)

\* registerPlugin(plugin) is called: the checks, up to the first await
RegisterPlugin ==
  /\ pmCount < MaxPmCalls
  /\ pmCount' = pmCount + 1
  /\ \E o \in DOMAIN pluginObjs :
       LET n == pmCount + 1
       IN IF Len(pmPlugins) >= pmConfig.maxPlugins
          THEN /\ Logged(n, "register", o, "maximum reached")
               /\ UNCHANGED <<pmPlugins, pmHooks, pmCalls>>
          ELSE IF MapHas(pmPlugins, pluginObjs[o].name)
               THEN /\ Logged(n, "register", o, "already registered")
                    /\ UNCHANGED <<pmPlugins, pmHooks, pmCalls>>
               ELSE IF pmConfig.enableValidation /\ pluginObjs[o].validate # "none"
                    THEN /\ pmCalls' = pmCalls \cup
                              {[n |-> n, op |-> "register", plugin |-> o,
                                phase |-> "validate"]}
                         /\ UNCHANGED <<pmPlugins, pmHooks, pmSeq, pmLast>>
                    ELSE AfterValidate(n, o, pmCalls)
  /\ UNCHANGED <<pluginObjs, pluginConfig, pmConfig, executeHookCall, invocations>>
  /\ UNCHANGED restOfPm

\* plugin.validate() resolved
ValidateDone ==
  /\ \E c \in pmCalls :
       /\ c.phase = "validate"
       /\ IF pluginObjs[c.plugin].validate = "valid"
          THEN AfterValidate(c.n, c.plugin, pmCalls \ {c})
          ELSE /\ pmCalls' = pmCalls \ {c}
               /\ Logged(c.n, "register", c.plugin, "validation failed")
               /\ UNCHANGED <<pmPlugins, pmHooks>>
  /\ UNCHANGED <<pluginObjs, pluginConfig, pmConfig, pmCount, executeHookCall, invocations>>
  /\ UNCHANGED restOfPm

\* plugin.initialize(orchestrator) settled
InitializeDone ==
  /\ \E c \in pmCalls :
       /\ c.phase = "initialize"
       /\ pmCalls' = pmCalls \ {c}
       /\ \E ok \in BOOLEAN :
            IF ok THEN CompleteRegister(c.n, c.plugin)
            ELSE /\ Logged(c.n, "register", c.plugin, "initialize failed")
                 /\ UNCHANGED <<pmPlugins, pmHooks>>
  /\ UNCHANGED <<pluginObjs, pluginConfig, pmConfig, pmCount, executeHookCall, invocations>>
  /\ UNCHANGED restOfPm

\* unregisterPluginHooks stores fresh arrays (list.filter) in this.hooks: an
\* executeHook call that is iterating goes on with the array it holds,
\* which from then on is no longer the one in this.hooks
Detach(c) ==
  IF c.pc = "await" /\ c.live
  THEN [c EXCEPT !.live = FALSE, !.list = pmHooks[c.hookName]]
  ELSE c

\* the tail of unregisterPlugin: this.unregisterPluginHooks(plugin);
\* this.plugins.delete(name)
CompleteUnregister(n, o, name) ==
  /\ executeHookCall' = Detach(executeHookCall)
  /\ pmHooks' = UnregisterPluginHooks(pmHooks, o)
  /\ pmPlugins' = MapDelete(pmPlugins, name)
  /\ Logged(n, "unregister", o, "unregistered")

\* unregisterPlugin(name) is called
UnregisterPlugin ==
  /\ pmCount < MaxPmCalls
  /\ pmCount' = pmCount + 1
  /\ \E name \in {pluginObjs[o].name : o \in DOMAIN pluginObjs} :
       LET n == pmCount + 1
       IN IF ~MapHas(pmPlugins, name)
          THEN /\ Logged(n, "unregister", 0, "not registered")
               /\ UNCHANGED <<pmPlugins, pmHooks, pmCalls, executeHookCall>>
          ELSE LET o == pmPlugins[MapGet(pmPlugins, name)].plugin
               IN IF pluginObjs[o].cleanup
                  THEN /\ pmCalls' = pmCalls \cup
                            {[n |-> n, op |-> "unregister", plugin |-> o,
                              phase |-> "cleanup"]}
                       /\ UNCHANGED <<pmPlugins, pmHooks, pmSeq, pmLast, executeHookCall>>
                  ELSE /\ CompleteUnregister(n, o, name)
                       /\ UNCHANGED pmCalls
  /\ UNCHANGED <<pluginObjs, pluginConfig, pmConfig, invocations>>
  /\ UNCHANGED restOfPm

\* plugin.cleanup() settled
CleanupDone ==
  /\ \E c \in pmCalls :
       /\ c.phase = "cleanup"
       /\ pmCalls' = pmCalls \ {c}
       /\ \E ok \in BOOLEAN :
            IF ok THEN CompleteUnregister(c.n, c.plugin, pluginObjs[c.plugin].name)
            ELSE /\ Logged(c.n, "unregister", c.plugin, "cleanup failed")
                 /\ UNCHANGED <<pmPlugins, pmHooks, executeHookCall>>
  /\ UNCHANGED <<pluginObjs, pluginConfig, pmConfig, pmCount, invocations>>
  /\ UNCHANGED restOfPm

InitPlugins ==
  /\ workflow = [e \in Execs |-> WorkflowCfg(<<>>, FALSE)]
  /\ ctx = [e \in Execs |-> NewContext(EmptyMap)]
  /\ frames = [e \in Execs |-> NoFrames]
  /\ wf = [e \in Execs |-> WfIdle]
  /\ OrchIdle
  /\ BuiltinIdle
  /\ RetryIdle
  /\ AgentIdle
  /\ \E setup \in PluginSetups :
       /\ pluginObjs = setup.objs
       /\ pluginConfig = [o \in DOMAIN setup.objs |-> NewPluginConfig(setup.prio[o])]
  /\ pmConfig \in PmConfigs
  /\ pmPlugins = <<>>
  /\ pmHooks = <<>>
  /\ pmCalls = {}
  /\ pmCount = 0
  /\ pmSeq = 0
  /\ pmLast = <<>>
  /\ executeHookCall = NoHookCall
  /\ invocations = <<>>

NextPlugins ==
  \/ RegisterPlugin
  \/ ValidateDone
  \/ InitializeDone
  \/ UnregisterPlugin
  \/ CleanupDone

SpecPlugins == InitPlugins /\ [][NextPlugins]_vars

(***************************************************************************)
(* Properties of PluginManager (specification SpecPlugins).                *)
(***************************************************************************)
\* C20: after any sequence of registerPlugin and unregisterPlugin calls,
\* every per-hook-name list is ordered by descending plugin priority, and
\* entries of equal priority are in the order in which their plugins were
\* registered (the order in which the registrations took effect, which for
\* overlapping calls is the order of their completion).
C20_HookListsSorted ==
  \A hookName \in DOMAIN pmHooks :
    LET list == pmHooks[hookName]
    IN /\ list # <<>>
       /\ \A i \in 1..Len(list) : list[i].priority = GetPriority(list[i].plugin)
       /\ \A i, j \in 1..Len(list) :
            i < j =>
              /\ list[i].priority >= list[j].priority
              /\ list[i].priority = list[j].priority => list[i].seq < list[j].seq

\* a plugin of higher priority registered last stands first, behind it two
\* plugins of equal priority in registration order, after an unregistration
C20_Witness ==
  /\ "beforeStep" \in DOMAIN pmHooks
  /\ Len(pmHooks["beforeStep"]) = 3
  /\ pmHooks["beforeStep"][1].priority = 10
  /\ pmHooks["beforeStep"][2].priority = 0
  /\ pmHooks["beforeStep"][3].priority = 0
  /\ pmHooks["beforeStep"][1].seq > pmHooks["beforeStep"][3].seq
  /\ pmLast # <<>>
  /\ pmLast.outcome = "unregistered"

(***************************************************************************)
(* PluginManager.executeHook, enablePlugin and disablePlugin               *)
(* (src/plugins/manager.ts), under a specification in which plugins are    *)
(* registered without validation and initialization, so that registerPlugin*)
(* and unregisterPlugin are synchronous and may run while a hook is        *)
(* awaited.                                                                *)
(***************************************************************************)
\* the plugin objects of a behaviour of SpecHooks and their priorities
HookSetups ==
  { [objs |-> <<PluginObj("cache", {"beforeStep", "onError", "onAgentError"}, "none", FALSE),
                PluginObj("metrics", {"beforeStep", "onError"}, "none", FALSE),
                PluginObj("limiter", {"beforeStep", "onAgentError"}, "none", FALSE)>>,
     prio |-> <<<<>>, <<>>, <<10>>>>] }

HookPmConfigs ==
  { [maxPlugins |-> DefaultMaxPlugins, enableValidation |-> TRUE, orchestrator |-> FALSE] }

\* the hook names executeHook is called with
HookNames == {HookMethods[k] : k \in DOMAIN HookMethods}

\* the arguments after the hook name
HookArgs == {<<Str("a0")>>}

\* what the hook method of plugin o may resolve with
HookResults(o) == {Undef, Null, Str(pluginObjs[o].name)}

\* args[0]
Arg0(args) == IF args = <<>> THEN Undef ELSE args[1]

\* String.prototype.startsWith
StartsWith(s, prefix) == Len(s) >= Len(prefix) /\ SubSeq(s, 1, Len(prefix)) = prefix

\* Rethrows for every hook name that has "Error" in it
RethrowsErrorHooks(hookName) ==
  \E i \in 1..Len(hookName) : i + 4 <= Len(hookName) /\ SubSeq(hookName, i, i + 4) = "Error"

\* hookName.startsWith("onError")
Rethrows(hookName) == StartsWith(hookName, "onError")

\* plugin.isEnabled(): this.config.enabled ?? true
IsEnabled(o) == pluginConfig[o].enabled

\* the array the call iterates
HookList(c) == IF c.live THEN pmHooks[c.hookName] ELSE c.list

\* NextEnabled that does not skip disabled plugins
NextEntry(list, index) == IF index < Len(list) THEN index + 1 ELSE 0

\* the for-of loop from the iterator's position: the iterator yields
\* list[index] as long as index < list.length, entries whose plugin is
\* disabled are skipped by `continue`.  The position of the first entry to
\* invoke, 0 when the iterator is exhausted (index counts the entries the
\* iterator has yielded, the list is 1-based here).
NextEnabled(list, index) ==
  LET later == {i \in (index + 1)..Len(list) : IsEnabled(list[i].plugin)}
  IN IF later = {} THEN 0 ELSE CHOOSE i \in later : \A j \in later : i <= j

\* the plugins of a hook list that are enabled, in list order
EnabledPlugins(list) ==
  LET on == SelectSeq(list, LAMBDA x : IsEnabled(x.plugin))
  IN [i \in 1..Len(on) |-> on[i].plugin]

\* the loop of executeHook up to the next `await hookMethod.apply(plugin,
\* args)`, or to `return result` past the end of the list
HookLoop(c, log, result, args) ==
  LET list == HookList(c)
      i == NextEnabled(list, c.index)
  IN IF i = 0
     THEN /\ executeHookCall' = [c EXCEPT !.pc = "returned", !.result = result,
                                          !.args = args, !.live = FALSE, !.list = <<>>]
          /\ invocations' = log
     ELSE /\ executeHookCall' = [c EXCEPT !.pc = "await", !.result = result,
                                          !.args = args, !.index = i]
          /\ invocations' = Append(log, [plugin |-> list[i].plugin, args |-> args,
                                          outcome |-> <<>>])

\* executeHook(hookName, ...args) is called, one call at a time
ExecuteHook ==
  /\ pmCount < MaxPmCalls
  /\ executeHookCall.pc # "await"
  /\ pmCount' = pmCount + 1
  /\ \E hookName \in HookNames, args \in HookArgs :
       IF hookName \notin DOMAIN pmHooks \/ pmHooks[hookName] = <<>>
       THEN /\ executeHookCall' = [NoHookCall EXCEPT !.n = pmCount + 1,
                                     !.pc = "returned",
                                     !.hookName = hookName, !.args = args,
                                     !.result = Arg0(args)]
            /\ invocations' = <<>>
       ELSE HookLoop([NoHookCall EXCEPT !.n = pmCount + 1,
                        !.hookName = hookName, !.live = TRUE,
                        !.atCall = EnabledPlugins(pmHooks[hookName])],
                     <<>>, Arg0(args), args)
  /\ UNCHANGED <<pluginObjs, pluginConfig, pmConfig, pmPlugins, pmHooks, pmCalls,
                 pmSeq, pmLast>>
  /\ UNCHANGED restOfPm

\* the awaited hook method settled: it resolved with a value or threw
HookSettle ==
  /\ executeHookCall.pc = "await"
  /\ LET c == executeHookCall
         n == Len(invocations)
         o == invocations[n].plugin
         settled(v) == [invocations EXCEPT ![n].outcome = <<v>>]
     IN \/ \E hookResult \in HookResults(o) :
             IF hookResult # Undef
             THEN HookLoop(c, settled(hookResult), hookResult,
                           IF Len(c.args) > 0 THEN [c.args EXCEPT ![1] = hookResult]
                           ELSE c.args)
             ELSE HookLoop(c, settled(hookResult), c.result, c.args)
        \/ LET error == Err("hook failed", <<n>>)
           IN IF Rethrows(c.hookName)
              THEN /\ executeHookCall' = [c EXCEPT !.pc = "thrown", !.result = error,
                                                   !.live = FALSE, !.list = <<>>]
                   /\ invocations' = settled(error)
              ELSE HookLoop(c, settled(error), c.result, c.args)
  /\ UNCHANGED <<pluginObjs, pluginConfig, pmConfig, pmPlugins, pmHooks, pmCalls,
                 pmCount, pmSeq, pmLast>>
  /\ UNCHANGED restOfPm

\* enablePlugin(name) / disablePlugin(name): plugin.updateConfig({ enabled })
\* on the registered plugin, false when there is none
SetEnabled(op, enabled) ==
  /\ pmCount < MaxPmCalls
  /\ pmCount' = pmCount + 1
  /\ \E name \in {pluginObjs[o].name : o \in DOMAIN pluginObjs} :
       IF ~MapHas(pmPlugins, name)
       THEN /\ Logged(pmCount + 1, op, 0, "not registered")
            /\ UNCHANGED pluginConfig
       ELSE LET o == pmPlugins[MapGet(pmPlugins, name)].plugin
            IN /\ pluginConfig' = [pluginConfig EXCEPT ![o].enabled = enabled]
               /\ Logged(pmCount + 1, op, o, "done")
  /\ UNCHANGED <<pluginObjs, pmConfig, pmPlugins, pmHooks, pmCalls, executeHookCall,
                 invocations>>
  /\ UNCHANGED restOfPm

EnablePlugin == SetEnabled("enable", TRUE)

DisablePlugin == SetEnabled("disable", FALSE)

InitHooks ==
  /\ workflow = [e \in Execs |-> WorkflowCfg(<<>>, FALSE)]
  /\ ctx = [e \in Execs |-> NewContext(EmptyMap)]
  /\ frames = [e \in Execs |-> NoFrames]
  /\ wf = [e \in Execs |-> WfIdle]
  /\ OrchIdle
  /\ BuiltinIdle
  /\ RetryIdle
  /\ AgentIdle
  /\ \E setup \in HookSetups :
       /\ pluginObjs = setup.objs
       /\ pluginConfig = [o \in DOMAIN setup.objs |-> NewPluginConfig(setup.prio[o])]
  /\ pmConfig \in HookPmConfigs
  /\ pmPlugins = <<>>
  /\ pmHooks = <<>>
  /\ pmCalls = {}
  /\ pmCount = 0
  /\ pmSeq = 0
  /\ pmLast = <<>>
  /\ executeHookCall = NoHookCall
  /\ invocations = <<>>

NextHooks ==
  \/ RegisterPlugin
  \/ UnregisterPlugin
  \/ EnablePlugin
  \/ DisablePlugin
  \/ ExecuteHook
  \/ HookSettle

SpecHooks == InitHooks /\ [][NextHooks]_vars

(***************************************************************************)
(* Properties of PluginManager.executeHook (specification SpecHooks).      *)
(***************************************************************************)
\* the value executeHook holds after the first k invocations of log: a0, or
\* the value the last hook that resolved with something other than
\* undefined resolved with
RECURSIVE ValueAfter(_, _, _)
ValueAfter(log, a0, k) ==
  IF k = 0 THEN a0
  ELSE LET v == log[k].outcome[1]
       IN IF IsErr(v) \/ v = Undef THEN ValueAfter(log, a0, k - 1) ELSE v

InvokedPlugins == [k \in 1..Len(invocations) |-> invocations[k].plugin]

\* C21: executeHook(name, a0, ...rest) returns the left fold over the hook
\* list of `name`, in list order and restricted to the plugins enabled at
\* call time: the hooks invoked are those of the enabled plugins of the list
\* as it was when executeHook was called, each once and in list order, each
\* is called with the current value as first argument, a resolved value
\* other than undefined replaces the current value, and the call returns the
\* last current value (a0 when no hook is registered).
C21_AsStated ==
  executeHookCall.pc = "returned" =>
    LET a0 == Str("a0")
    IN /\ InvokedPlugins = executeHookCall.atCall
       /\ \A k \in 1..Len(invocations) :
            invocations[k].args[1] = ValueAfter(invocations, a0, k - 1)
       /\ executeHookCall.result = ValueAfter(invocations, a0, Len(invocations))

\* a call returned after it invoked the hook of one plugin twice
C21_InvokedTwice ==
  /\ executeHookCall.pc = "returned"
  /\ \E j, k \in 1..Len(invocations) : j < k /\ invocations[j].plugin = invocations[k].plugin

\* a call that no registerPlugin, unregisterPlugin, enablePlugin or
\* disablePlugin call overlaps returns the fold as C21 states it
C21_FoldOfUndisturbedCall ==
  (executeHookCall.pc = "returned" /\ pmCount = executeHookCall.n) => C21_AsStated

\* the awaited hook threw in this step
HookThrew ==
  /\ executeHookCall.pc = "await"
  /\ Len(invocations') >= Len(invocations)
  /\ invocations'[Len(invocations)].outcome # <<>>
  /\ IsErr(invocations'[Len(invocations)].outcome[1])

\* C22: when a hook throws inside executeHook, for a hook name that does not
\* begin with "onError" (onAgentError included) the exception is swallowed:
\* the next enabled hook of the list is invoked with the same arguments, or
\* with none left the call returns normally, and the value accumulated so
\* far is kept; for a hook name that begins with "onError" (of the names
\* of HookMethods, "onError" alone) executeHook throws that exception and
\* invokes no later hook.
C22_ThrowingHooks ==
  /\ [][HookThrew =>
          LET c == executeHookCall
              n == Len(invocations)
              i == NextEnabled(HookList(c), c.index)
          IN IF c.hookName = "onError"
             THEN /\ executeHookCall'.pc = "thrown"
                  /\ executeHookCall'.result = invocations'[n].outcome[1]
                  /\ Len(invocations') = n
             ELSE /\ executeHookCall'.result = c.result
                  /\ executeHookCall'.args = c.args
                  /\ IF i = 0
                     THEN /\ executeHookCall'.pc = "returned"
                          /\ Len(invocations') = n
                     ELSE /\ executeHookCall'.pc = "await"
                          /\ Len(invocations') = n + 1
                          /\ invocations'[n + 1].plugin = HookList(c)[i].plugin
                          /\ invocations'[n + 1].args = c.args]_vars
  /\ [][executeHookCall.pc = "thrown" =>
          invocations' = invocations \/ executeHookCall'.n # executeHookCall.n]_vars
  /\ [](executeHookCall.pc = "returned" =>
          executeHookCall.result = ValueAfter(invocations, Str("a0"), Len(invocations)))
  /\ [](executeHookCall.pc = "thrown" => executeHookCall.hookName = "onError")

\* onAgentError: the hook of the first plugin threw, the hook of the second
\* ran and its value was returned
C22_Witness ==
  /\ executeHookCall.pc = "returned"
  /\ executeHookCall.hookName = "onAgentError"
  /\ Len(invocations) = 2
  /\ IsErr(invocations[1].outcome[1])
  /\ invocations[2].outcome[1] = Str("cache")
  /\ executeHookCall.result = Str("cache")

\* onError: the hook of the first of two enabled plugins threw and the call
\* threw without invoking the second
C22_WitnessRethrown ==
  /\ executeHookCall.pc = "thrown"
  /\ Len(invocations) = 1
  /\ Len(SelectSeq(pmHooks["onError"], LAMBDA x : IsEnabled(x.plugin))) = 2

(***************************************************************************)
(* CachePlugin (src/plugins/builtin/cache.ts).  Its hooks are applied      *)
(* around agent calls: beforeAgentExecution(agentId, prompt, context),     *)
(* then the agent, then afterAgentExecution(agentId, result, context).     *)
(* The class defines cleanup two times, as the private method that removes *)
(* the expired entries and as the public async method that clears the      *)
(* cache; which of them `this.cleanup()` in set() runs is decided by the   *)
(* build, and is chosen when the plugin is constructed.                    *)
(***************************************************************************)
MaxCacheCalls == 4     \* agent calls in a behaviour
MaxNow == 2            \* Date.now() advances up to here
NumContexts == 2       \* ExecutionContexts the calls are made in

DefaultMaxSize == 1000
DefaultTtlMs == 300000
HashShift == 5
Radix == 36

Contexts == 1..NumContexts
CacheAgents == {"a", "b"}
\* context.variables.input of the contexts, context c having
\* InputOfContext(c)
CacheInputs == <<"x", "y">>
InputOfContext(c) == CacheInputs[((c - 1) % Len(CacheInputs)) + 1]
\* what an agent call may resolve with
CacheResults == {Str("r"), Str("")}

\* new CachePlugin({ options }): getOption(key, default) is
\* options?.[key] ?? default
NewCachePlugin(opts, cleanup) ==
  [maxSize |-> IF opts.maxSize = <<>> THEN DefaultMaxSize ELSE opts.maxSize[1],
   ttlMs |-> IF opts.ttlMs = <<>> THEN DefaultTtlMs ELSE opts.ttlMs[1],
   cleanup |-> cleanup]

CacheOptions ==
  { [maxSize |-> <<1>>, ttlMs |-> <<>>],
    [maxSize |-> <<2>>, ttlMs |-> <<1>>],
    [maxSize |-> <<>>, ttlMs |-> <<1>>] }

\* the two definitions of cleanup in the class
CleanupMethods == {"expired", "clear"}

\* str.charCodeAt(i - 1) for the characters of the model's strings
CharCodeAt(str, i) ==
  LET ch == SubSeq(str, i, i)
  IN CASE ch = "\"" -> 34
       [] ch = "a" -> 97
       [] ch = "b" -> 98
       [] ch = "x" -> 120
       [] ch = "y" -> 121

\* hash & hash, the conversion to a 32-bit integer: the strings hashed here
\* are at most 4 characters long and their hashes stay below 2^31, where
\* the conversion leaves the number as it is
ToInt32(n) == n

\* the loop of simpleHash over the first k characters: hash = (hash << 5) -
\* hash + char; hash = hash & hash
RECURSIVE HashOf(_, _)
HashOf(str, k) ==
  IF k = 0 THEN 0
  ELSE LET hash == HashOf(str, k - 1)
       IN ToInt32(ToInt32(hash * Pow(2, HashShift)) - hash + CharCodeAt(str, k))

Abs(n) == IF n < 0 THEN 0 - n ELSE n

\* Number.prototype.toString(36) of a non-negative integer
RECURSIVE ToString36(_)
ToString36(n) ==
  LET digit(d) == SubSeq("0123456789abcdefghijklmnopqrstuvwxyz", d + 1, d + 1)
  IN IF n < Radix THEN digit(n) ELSE ToString36(n \div Radix) \o digit(n % Radix)

\* simpleHash(str): Math.abs(hash).toString(36)
SimpleHash(str) == ToString36(Abs(HashOf(str, Len(str))))

\* defaultKeyGenerator(agentId, prompt): `agent:${agentId}:${hash}`
DefaultKeyGenerator(agentId, prompt) ==
  "agent:" \o agentId \o ":" \o SimpleHash(agentId \o prompt)

\* JSON.stringify of a string that has no character to escape
Stringify(str) == "\"" \o str \o "\""

\* whether a value is truthy: `if (cached)`, `if (context.variables._cached)`
Truthy(v) ==
  CASE v.t = "str" -> v.v # ""
    [] v.t = "bool" -> v.v
    [] v.t \in {"null", "undef"} -> FALSE
    [] OTHER -> TRUE

\* Map.has, Map.delete and Map.set on this.cache: a key that is set again
\* keeps its place in the insertion order
CacheHas(m, key) == \E i \in 1..Len(m) : m[i].key = key
CacheEntry(m, key) == m[CHOOSE i \in 1..Len(m) : m[i].key = key]
CacheDelete(m, key) == SelectSeq(m, LAMBDA e : e.key # key)
CachePut(m, key, entry) ==
  IF CacheHas(m, key)
  THEN [i \in 1..Len(m) |-> IF m[i].key = key THEN entry ELSE m[i]]
  ELSE Append(m, entry)

\* Date.now() - entry.timestamp > this.ttlMs
Expired(entry) == now - entry.timestamp > cachePlugin.ttlMs

\* get(key): the value or null, and the cache it leaves (an expired entry
\* is deleted)
CacheGet(m, key) ==
  IF ~CacheHas(m, key) THEN [value |-> Null, found |-> FALSE, cache |-> m]
  ELSE IF Expired(CacheEntry(m, key))
       THEN [value |-> Null, found |-> FALSE, cache |-> CacheDelete(m, key)]
       ELSE [value |-> CacheEntry(m, key).value, found |-> TRUE, cache |-> m]

\* this.cleanup(): the private cleanup() removes the expired entries, the
\* public async cleanup() runs this.clear() before its promise is returned
Cleanup(m) ==
  IF cachePlugin.cleanup = "clear" THEN <<>>
  ELSE SelectSeq(m, LAMBDA e : ~Expired(e))

\* AtMaxSize that lets the cache grow one entry past maxSize
OverMaxSize(m) == Len(m) > cachePlugin.maxSize

\* this.cache.size >= this.maxSize
AtMaxSize(m) == Len(m) >= cachePlugin.maxSize

\* set(key, value): cleanup, then the first key of the map is deleted when
\* the cache is at maxSize (keys().next().value, undefined in an empty
\* map), then the entry is set with the timestamp Date.now()
CacheSet(m, key, value) ==
  LET cleaned == Cleanup(m)
      room == IF AtMaxSize(cleaned) /\ cleaned # <<>> THEN Tail(cleaned) ELSE cleaned
  IN CachePut(room, key, [key |-> key, value |-> value, timestamp |-> now])

\* the keys of the entries of m that are not in m2, in insertion order
Removed(m, m2) ==
  LET gone == SelectSeq(m, LAMBDA e : ~CacheHas(m2, e.key))
  IN [i \in 1..Len(gone) |-> gone[i].key]

\* the keys of `recent` that are still in cache m, and key as the most
\* recently used one when it is given
Used(recent, m, key) ==
  SelectSeq(recent, LAMBDA k : CacheHas(m, k) /\ <<k>> # key) \o key

\* the least recently used key, none in an empty cache
Lru == IF recency = <<>> THEN <<>> ELSE <<Head(recency)>>

\* hit tells whether the lookup of the call in flight found an entry
NoCacheCall == [pc |-> "idle", agentId |-> "none", prompt |-> "none", hit |-> FALSE]

NewVariables(input) == [input |-> input, cached |-> Undef, cachedResult |-> Undef]

restOfCache == <<engineVars, orchVars, retryVars, agentVars, pmVars, limiterVars,
                metricsVars>>

\* an agent call begins: beforeAgentExecution(agentId, prompt, context),
\* the prompt being the input of the context, as it is or serialized
BeforeAgentExecution ==
  /\ cacheCount < MaxCacheCalls
  /\ cacheCount' = cacheCount + 1
  /\ \E c \in Contexts, agentId \in CacheAgents :
       /\ cacheCalls[c].pc = "idle"
       /\ \E prompt \in {cacheCtx[c].input, Stringify(cacheCtx[c].input)} :
            LET key == DefaultKeyGenerator(agentId, prompt)
                cached == CacheGet(cache, key)
            IN /\ cache' = cached.cache
               /\ cacheCtx' = IF Truthy(cached.value)
                              THEN [cacheCtx EXCEPT ![c].cached = Bool(TRUE),
                                                    ![c].cachedResult = cached.value]
                              ELSE cacheCtx
               /\ cacheCalls' = [cacheCalls EXCEPT ![c] =
                                   [pc |-> "agent", agentId |-> agentId, prompt |-> prompt,
                                    hit |-> Truthy(cached.value)]]
               /\ cacheLast' = [op |-> "get", context |-> c, key |-> key,
                                found |-> cached.found, value |-> cached.value,
                                removed |-> Removed(cache, cached.cache), full |-> FALSE,
                                lru |-> Lru, result |-> Undef]
               /\ recency' = Used(recency, cached.cache,
                                  IF cached.found THEN <<key>> ELSE <<>>)
  /\ UNCHANGED <<now, cachePlugin>>
  /\ UNCHANGED restOfCache

\* the agent resolved with result: afterAgentExecution(agentId, result,
\* context)
AfterAgentExecution ==
  /\ \E c \in Contexts, result \in CacheResults :
       /\ cacheCalls[c].pc = "agent"
       /\ cacheCalls' = [cacheCalls EXCEPT ![c] = NoCacheCall]
       /\ LET agentId == cacheCalls[c].agentId
              variables == cacheCtx[c]
              key == DefaultKeyGenerator(agentId, Stringify(variables.input))
          IN IF Truthy(variables.cached)
             THEN /\ cacheLast' = [op |-> "cached", context |-> c, key |-> key,
                                   found |-> FALSE, value |-> variables.cachedResult,
                                   removed |-> <<>>, full |-> FALSE, lru |-> Lru,
                                   result |-> result]
                  /\ UNCHANGED <<cache, recency>>
             ELSE /\ cache' = CacheSet(cache, key, result)
                  /\ cacheLast' = [op |-> "set", context |-> c, key |-> key,
                                   found |-> FALSE, value |-> result,
                                   removed |-> Removed(cache, cache'),
                                   full |-> /\ Len(cache) >= cachePlugin.maxSize
                                            /\ \A i \in 1..Len(cache) : ~Expired(cache[i]),
                                   lru |-> Lru, result |-> result]
                  /\ recency' = Used(recency, cache', <<key>>)
  /\ UNCHANGED <<now, cachePlugin, cacheCtx, cacheCount>>
  /\ UNCHANGED restOfCache

\* time passes
CacheTick ==
  /\ now < MaxNow
  /\ now' = now + 1
  /\ UNCHANGED cacheVars
  /\ UNCHANGED restOfCache

InitCache ==
  /\ workflow = [e \in Execs |-> WorkflowCfg(<<>>, FALSE)]
  /\ ctx = [e \in Execs |-> NewContext(EmptyMap)]
  /\ frames = [e \in Execs |-> NoFrames]
  /\ wf = [e \in Execs |-> WfIdle]
  /\ OrchIdle
  /\ RetryIdle
  /\ AgentIdle
  /\ PmIdle
  /\ LimiterIdle
  /\ MetricsIdle
  /\ now = 0
  /\ cachePlugin \in {NewCachePlugin(o, m) : o \in CacheOptions, m \in CleanupMethods}
  /\ cache = <<>>
  /\ cacheCtx = [c \in Contexts |-> NewVariables(InputOfContext(c))]
  /\ cacheCalls = [c \in Contexts |-> NoCacheCall]
  /\ cacheCount = 0
  /\ cacheLast = <<>>
  /\ recency = <<>>

NextCache ==
  \/ BeforeAgentExecution
  \/ AfterAgentExecution
  \/ CacheTick

SpecCache == InitCache /\ [][NextCache]_vars

(***************************************************************************)
(* Properties of CachePlugin (specification SpecCache).                    *)
(***************************************************************************)
\* context c begins an agent call in this step (beforeAgentExecution runs)
Begins(c) == cacheCalls[c].pc = "idle" /\ cacheCalls'[c].pc = "agent"

\* context c ends an agent call in this step (afterAgentExecution runs)
Ends(c) == cacheCalls[c].pc = "agent" /\ cacheCalls'[c].pc = "idle"

\* the key afterAgentExecution stores the result of agent agentId under in
\* context c
StoreKey(agentId, c) == DefaultKeyGenerator(agentId, Stringify(cacheCtx[c].input))

\* C23: with the hooks applied around each agent call, after a first call
\* for agent id A and input I has completed and stored its result (the
\* cache holds the entry afterAgentExecution made for A and I), a second
\* call with the same A and I made within ttlMs of the store is flagged as
\* a cache hit: context.variables._cached is true and _cachedResult is the
\* first call's result; a call made more than ttlMs after the store is not
\* flagged.
C23_AsStated ==
  [][\A c \in Contexts :
       (Begins(c) /\ CacheHas(cache, StoreKey(cacheCalls'[c].agentId, c))) =>
         LET entry == CacheEntry(cache, StoreKey(cacheCalls'[c].agentId, c))
         IN IF now - entry.timestamp <= cachePlugin.ttlMs
            THEN /\ cacheCtx'[c].cached = Bool(TRUE)
                 /\ cacheCtx'[c].cachedResult = entry.value
            ELSE cacheCtx'[c].cached # Bool(TRUE)]_vars

\* what holds of the lookup: a call whose prompt is the serialized input is
\* flagged when the entry is within ttlMs and its value is truthy; a call
\* whose prompt is the input string itself looks up another key and finds
\* nothing there
C23_HitOnSerializedPrompt ==
  [][\A c \in Contexts :
       (Begins(c) /\ CacheHas(cache, StoreKey(cacheCalls'[c].agentId, c))) =>
         LET entry == CacheEntry(cache, StoreKey(cacheCalls'[c].agentId, c))
         IN IF cacheCalls'[c].prompt = cacheCtx[c].input
            THEN ~cacheLast'.found /\ cacheCtx' = cacheCtx
            ELSE IF now - entry.timestamp <= cachePlugin.ttlMs /\ Truthy(entry.value)
                 THEN /\ cacheCtx'[c].cached = Bool(TRUE)
                      /\ cacheCtx'[c].cachedResult = entry.value
                 ELSE cacheCtx' = cacheCtx]_vars

\* a call was flagged as a cache hit
C23_Hit ==
  \E c \in Contexts :
    /\ cacheCalls[c].pc = "agent"
    /\ cacheLast.op = "get" /\ cacheLast.context = c /\ cacheLast.found
    /\ cacheCtx[c].cached = Bool(TRUE)

\* C27: after any sequence of stores (afterAgentExecution on a miss) and
\* lookups, with maxSize >= 1, the number of entries in the cache never
\* exceeds maxSize.
C27_SizeBound ==
  cachePlugin.maxSize >= 1 => Len(cache) <= cachePlugin.maxSize

\* a store found two entries in a cache of maxSize 2, none of them expired,
\* removed one and left the cache at maxSize
C27_Witness ==
  /\ cachePlugin.maxSize = 2
  /\ cacheLast # <<>>
  /\ cacheLast.op = "set"
  /\ cacheLast.full
  /\ Len(cacheLast.removed) = 1
  /\ Len(cache) = 2

C28_EvictedMoreRecentlyUsed ==
  /\ cacheLast # <<>>
  /\ cacheLast.op = "set"
  /\ cacheLast.full
  /\ cachePlugin.cleanup = "expired"
  /\ Len(cacheLast.removed) = 1
  /\ cacheLast.removed # cacheLast.lru

(***************************************************************************)
(* RateLimiterPlugin (src/plugins/builtin/rate-limiter.ts)                 *)
(***************************************************************************)
MaxLimiterCalls == 4   \* beforeAgentExecution calls in a behaviour
MaxTicks == 3          \* times the clock is advanced in a behaviour

DefaultRequestsPerHour == 1000
DefaultBurstLimit == 10
BurstWindowMs == 60000
HourMs == 3600000

\* new RateLimiterPlugin({ options }): getOption(key, default)
NewRateLimiterPlugin(opts) ==
  [requestsPerHour |-> IF opts.requestsPerHour = <<>> THEN DefaultRequestsPerHour
                       ELSE opts.requestsPerHour[1],
   burstLimit |-> IF opts.burstLimit = <<>> THEN DefaultBurstLimit ELSE opts.burstLimit[1]]

LimiterOptions ==
  { [requestsPerHour |-> <<>>, burstLimit |-> <<2>>],
    [requestsPerHour |-> <<1>>, burstLimit |-> <<2>>],
    [requestsPerHour |-> <<>>, burstLimit |-> <<>>],
    [requestsPerHour |-> <<0>>, burstLimit |-> <<0>>] }

LimiterAgents == {"a", "b"}
\* context.metadata?.userId
UserIds == {Undef, Str("")}
\* by how much the clock advances in one step
ClockSteps == {BurstWindowMs \div 2, HourMs}

\* defaultKeyGenerator(agentId, context): `${agentId}:${userId}` with
\* userId = context.metadata?.userId || "anonymous"
LimiterKey(agentId, userId) ==
  agentId \o ":" \o (IF Truthy(userId) THEN userId.v ELSE "anonymous")

\* createEntry(now)
CreateEntry ==
  [count |-> 0, resetTime |-> now + HourMs,
   burstCount |-> 0, burstResetTime |-> now + BurstWindowMs]

\* this.limits.get(key) || this.createEntry(now)
EntryOf(key) == IF key \in DOMAIN limits THEN limits[key] ELSE CreateEntry

\* BurstExceeded that admits one call more
BurstExceededLate(entry) == entry.burstCount > limiterPlugin.burstLimit

\* entry.burstCount >= this.burstLimit
BurstExceeded(entry) == entry.burstCount >= limiterPlugin.burstLimit

\* the burst part of checkRateLimit: inside the window the limit is tested,
\* past it the burst counter and window of the entry are reset
BurstCheck(entry) ==
  IF now < entry.burstResetTime
  THEN [ok |-> ~BurstExceeded(entry), entry |-> entry]
  ELSE [ok |-> TRUE,
        entry |-> [entry EXCEPT !.burstCount = 0, !.burstResetTime = now + BurstWindowMs]]

\* HourlyCheck that admits one call more
HourlyCheckLate(entry) ==
  IF now < entry.resetTime
  THEN [ok |-> entry.count <= limiterPlugin.requestsPerHour, entry |-> entry]
  ELSE [ok |-> TRUE, entry |-> [entry EXCEPT !.count = 0, !.resetTime = now + HourMs]]

\* the hourly part of checkRateLimit
HourlyCheck(entry) ==
  IF now < entry.resetTime
  THEN [ok |-> entry.count < limiterPlugin.requestsPerHour, entry |-> entry]
  ELSE [ok |-> TRUE, entry |-> [entry EXCEPT !.count = 0, !.resetTime = now + HourMs]]

\* checkRateLimit(key): whether the call is admitted and the entry as the
\* checks leave it; `return false` of the burst check comes before the
\* hourly check
CheckRateLimit(key) ==
  LET burst == BurstCheck(EntryOf(key))
      hourly == HourlyCheck(burst.entry)
  IN IF ~burst.ok THEN burst ELSE hourly

\* the entry is an object: what checkRateLimit changed in the entry of the
\* Map stays changed, in an entry just created it is lost
AfterCheck(key, entry) ==
  IF key \in DOMAIN limits THEN [limits EXCEPT ![key] = entry] ELSE limits

\* recordRequest(key) on the limits map m
RecordRequest(m, key) ==
  LET entry == IF key \in DOMAIN m THEN m[key] ELSE CreateEntry
  IN (key :> [entry EXCEPT !.count = @ + 1, !.burstCount = @ + 1]) @@ m

\* the burst window of the key at this call: the window it is in, or a new
\* one that this call opens when the key has none or its window has elapsed
WindowAt(key) ==
  IF key \in DOMAIN windows /\ now < windows[key].start + BurstWindowMs
  THEN windows[key]
  ELSE [start |-> now, admitted |-> 0,
        n |-> IF key \in DOMAIN windows THEN windows[key].n + 1 ELSE 1]

restOfLimiter == <<engineVars, orchVars, retryVars, agentVars, pmVars, cacheVars,
                  metricsVars>>

\* beforeAgentExecution(agentId, prompt, context): it throws "Rate limit
\* exceeded" or records the request and returns
LimiterBeforeAgentExecution ==
  /\ limiterCount < MaxLimiterCalls
  /\ limiterCount' = limiterCount + 1
  /\ \E agentId \in LimiterAgents, userId \in UserIds :
       LET key == LimiterKey(agentId, userId)
           check == CheckRateLimit(key)
           window == WindowAt(key)
           hourly == /\ key \in DOMAIN limits
                     /\ now < limits[key].resetTime
                     /\ limits[key].count >= limiterPlugin.requestsPerHour
       IN /\ limits' = IF check.ok THEN RecordRequest(AfterCheck(key, check.entry), key)
                       ELSE AfterCheck(key, check.entry)
          /\ windows' = (key :> [window EXCEPT !.admitted = IF check.ok THEN @ + 1 ELSE @])
                        @@ windows
          /\ limiterLast' = [key |-> key, admitted |-> check.ok,
                             inWindow |-> window.admitted, window |-> window.n,
                             hourly |-> hourly]
  /\ UNCHANGED <<now, limiterPlugin, limiterTicks>>
  /\ UNCHANGED restOfLimiter

\* the interval timer of initialize fired: pruneExpired()
PruneExpired ==
  /\ \E key \in DOMAIN limits : now > limits[key].resetTime /\ now > limits[key].burstResetTime
  /\ limits' = LET kept == {key \in DOMAIN limits :
                              ~(now > limits[key].resetTime /\ now > limits[key].burstResetTime)}
               IN [key \in kept |-> limits[key]]
  /\ UNCHANGED <<now, limiterPlugin, limiterCount, limiterTicks, windows, limiterLast>>
  /\ UNCHANGED restOfLimiter

\* time passes
LimiterTick ==
  /\ limiterTicks < MaxTicks
  /\ limiterTicks' = limiterTicks + 1
  /\ \E d \in ClockSteps : now' = now + d
  /\ UNCHANGED <<limiterPlugin, limits, limiterCount, windows, limiterLast>>
  /\ UNCHANGED restOfLimiter

InitLimiter ==
  /\ workflow = [e \in Execs |-> WorkflowCfg(<<>>, FALSE)]
  /\ ctx = [e \in Execs |-> NewContext(EmptyMap)]
  /\ frames = [e \in Execs |-> NoFrames]
  /\ wf = [e \in Execs |-> WfIdle]
  /\ OrchIdle
  /\ RetryIdle
  /\ AgentIdle
  /\ PmIdle
  /\ CacheIdle
  /\ MetricsIdle
  /\ now = 0
  /\ limiterPlugin \in {NewRateLimiterPlugin(o) : o \in LimiterOptions}
  /\ limits = <<>>
  /\ limiterCount = 0
  /\ limiterTicks = 0
  /\ windows = <<>>
  /\ limiterLast = <<>>

NextLimiter ==
  \/ LimiterBeforeAgentExecution
  \/ PruneExpired
  \/ LimiterTick

SpecLimiter == InitLimiter /\ [][NextLimiter]_vars

(***************************************************************************)
(* Properties of RateLimiterPlugin (specification SpecLimiter).            *)
(***************************************************************************)
\* C24 as stated: with burstLimit = L, for one key the first L calls inside
\* one 60-second burst window are admitted and every further call inside
\* that window fails with the rate-limit error; after the window has
\* elapsed the next call opens a new window and is admitted again.  A call
\* is admitted exactly when fewer than L calls were admitted before it in
\* the key's burst window.
C24_AsStated ==
  limiterLast # <<>> =>
    limiterLast.admitted = (limiterLast.inWindow < limiterPlugin.burstLimit)

\* C24: the same, unless the hourly limit of the key is reached: a call
\* inside the burst window is rejected when L calls were admitted in the
\* window, and is admitted otherwise unless requestsPerHour calls were
\* admitted for the key since its hourly window began.
C24_BurstLimit ==
  limiterLast # <<>> =>
    IF limiterLast.inWindow >= limiterPlugin.burstLimit
    THEN ~limiterLast.admitted
    ELSE limiterLast.admitted = ~limiterLast.hourly

\* burstLimit 2: the third call inside the window was rejected
C24_Witness ==
  /\ limiterLast # <<>>
  /\ limiterPlugin.burstLimit = 2
  /\ ~limiterLast.admitted
  /\ limiterLast.inWindow = 2
  /\ ~limiterLast.hourly

\* a call was admitted in the second window of a key whose first window
\* was used up
C24_AdmittedAgain ==
  /\ limiterLast # <<>>
  /\ limiterLast.admitted
  /\ limiterLast.window = 2
  /\ limiterLast.inWindow = 0
  /\ limiterCount = 4
  /\ \E key \in DOMAIN limits : limits[key].count = 3

(***************************************************************************)
(* MetricsCollector (src/observability/metrics.ts)                         *)
(***************************************************************************)
MaxRecords == 4        \* metrics recorded in a behaviour

MaxMetrics == 100000
Percent == 100

MetricNames == {"x", "y"}
Durations == {10, 20, 30, 40}
GaugeValues == {10}
\* tags: none, or { agentId: "a" }
TagSets == {Undef, [agentId |-> "a"]}

\* Object.entries(tags) sorted by key and joined as k=v,k=v
TagString(tags) == "agentId=" \o tags.agentId

\* getMetricKey(name, tags)
GetMetricKey(name, tags) ==
  IF tags = Undef THEN name ELSE name \o "{" \o TagString(tags) \o "}"

\* addMetric(metric): push, and only the last maxMetrics metrics are kept
AddMetric(metric) ==
  LET pushed == Append(metrics, metric)
  IN IF Len(pushed) > MaxMetrics
     THEN SubSeq(pushed, Len(pushed) - MaxMetrics + 1, Len(pushed))
     ELSE pushed

restOfMetrics == <<engineVars, orchVars, retryVars, agentVars, pmVars, now, cacheVars,
                  limiterVars>>

\* recordTimer(name, duration, tags)
RecordTimer ==
  /\ Len(metrics) < MaxRecords
  /\ \E name \in {"x"}, duration \in Durations, tags \in TagSets :
       LET key == GetMetricKey(name, tags)
           values == IF key \in DOMAIN timers THEN timers[key] ELSE <<>>
       IN /\ timers' = (key :> Append(values, duration)) @@ timers
          /\ metrics' = AddMetric([name |-> name, value |-> duration, tags |-> tags,
                                   type |-> "timer"])
  /\ summary' = <<>>
  /\ UNCHANGED gauges
  /\ UNCHANGED restOfMetrics

\* setGauge(name, value, tags)
SetGauge ==
  /\ Len(metrics) < MaxRecords
  /\ \E name \in MetricNames, value \in GaugeValues :
       /\ gauges' = (GetMetricKey(name, Undef) :> value) @@ gauges
       /\ metrics' = AddMetric([name |-> name, value |-> value, tags |-> Undef,
                                type |-> "gauge"])
  /\ summary' = <<>>
  /\ UNCHANGED timers
  /\ UNCHANGED restOfMetrics

\* getMetrics({ name, tags }): the metrics of that name, and with a tags
\* filter those that have tags and agree with every entry of the filter
GetMetrics(name, tags) ==
  LET named == SelectSeq(metrics, LAMBDA m : m.name = name)
  IN IF tags = Undef THEN named
     ELSE SelectSeq(named, LAMBDA m :
            /\ m.tags # Undef
            /\ \A k \in DOMAIN tags : k \in DOMAIN m.tags /\ m.tags[k] = tags[k])

\* x placed into an ascending list
RECURSIVE InsertAscending(_, _)
InsertAscending(sorted, x) ==
  IF sorted = <<>> THEN <<x>>
  ELSE IF Head(sorted) <= x
       THEN <<Head(sorted)>> \o InsertAscending(Tail(sorted), x)
       ELSE <<x>> \o sorted

\* values.sort((a, b) => a - b)
RECURSIVE SortAscending(_)
SortAscending(values) ==
  IF values = <<>> THEN <<>>
  ELSE InsertAscending(SortAscending(SubSeq(values, 1, Len(values) - 1)),
                       values[Len(values)])

\* values.reduce((a, b) => a + b, 0)
RECURSIVE ReduceSum(_)
ReduceSum(values) ==
  IF values = <<>> THEN 0 ELSE ReduceSum(SubSeq(values, 1, Len(values) - 1)) + values[Len(values)]

\* PercentileIndex that rounds n * p down
PercentileIndexFloor(n, p) == (n * p) \div Percent

\* Math.ceil(sortedValues.length * p) - 1 for p given in hundredths (0.5,
\* 0.95 and 0.99 are 50, 95 and 99).  The doubles 0.95 and 0.99 are a
\* little below the fractions, the product is rounded to an integer only
\* where n * p is one, so the ceiling is that of the exact product.
PercentileIndex(n, p) == ((n * p + Percent - 1) \div Percent) - 1

\* percentile(sortedValues, p): sortedValues[Math.max(0, index)], 0 for an
\* empty list
Percentile(sortedValues, p) ==
  LET index == PercentileIndex(Len(sortedValues), p)
  IN IF sortedValues = <<>> THEN 0
     ELSE sortedValues[(IF index < 0 THEN 0 ELSE index) + 1]

\* getSummary(name, tags): undefined without metrics, else the summary of
\* the values of the metrics getMetrics finds; avg is the quotient sum / n
GetSummary ==
  /\ metrics # <<>>
  /\ \E name \in MetricNames, tags \in TagSets :
       LET found == GetMetrics(name, tags)
           values == SortAscending([i \in 1..Len(found) |-> found[i].value])
           sum == ReduceSum(values)
       IN summary' =
            IF found = <<>> THEN [name |-> name, tags |-> tags, returned |-> Undef]
            ELSE [name |-> name, tags |-> tags,
                  returned |-> [name |-> name, count |-> Len(values), sum |-> sum,
                                min |-> values[1], max |-> values[Len(values)],
                                avg |-> Frac(sum, Len(values)),
                                p50 |-> Percentile(values, 50),
                                p95 |-> Percentile(values, 95),
                                p99 |-> Percentile(values, 99)]]
  /\ UNCHANGED <<metrics, timers, gauges>>
  /\ UNCHANGED restOfMetrics

InitMetrics ==
  /\ workflow = [e \in Execs |-> WorkflowCfg(<<>>, FALSE)]
  /\ ctx = [e \in Execs |-> NewContext(EmptyMap)]
  /\ frames = [e \in Execs |-> NoFrames]
  /\ wf = [e \in Execs |-> WfIdle]
  /\ OrchIdle
  /\ RetryIdle
  /\ AgentIdle
  /\ PmIdle
  /\ CacheIdle
  /\ LimiterIdle
  /\ now = 0
  /\ metrics = <<>>
  /\ timers = <<>>
  /\ gauges = <<>>
  /\ summary = <<>>

NextMetrics ==
  \/ RecordTimer
  \/ SetGauge
  \/ GetSummary

SpecMetrics == InitMetrics /\ [][NextMetrics]_vars

(***************************************************************************)
(* Properties of MetricsCollector (specification SpecMetrics).             *)
(***************************************************************************)
\* the values recorded with recordTimer under name, in the order recorded
TimerValues(name) ==
  LET recorded == SelectSeq(metrics, LAMBDA m : m.name = name /\ m.type = "timer")
  IN [i \in 1..Len(recorded) |-> recorded[i].value]

\* the element at index i (from 0) of the ascending-sorted values: fewer
\* than i + 1 values are smaller and at least i + 1 are not larger
ElementAt(values, i) ==
  CHOOSE v \in {values[k] : k \in 1..Len(values)} :
    /\ Cardinality({k \in 1..Len(values) : values[k] < v}) <= i
    /\ Cardinality({k \in 1..Len(values) : values[k] <= v}) > i

\* ceil(n * p) - 1 clamped at 0, p in hundredths
RankIndex(n, p) ==
  LET ceil == CHOOSE c \in 0..n : c * Percent >= n * p /\ (c - 1) * Percent < n * p
  IN IF ceil - 1 < 0 THEN 0 ELSE ceil - 1

Finalized(r) == r.endTime

\* the fields a record gets when it is pushed
Pushed(r) == [id |-> r.id, stepId |-> r.stepId, agentId |-> r.agentId,
              input |-> r.input, path |-> r.path]

\* C26: context.history is a write-once log: in every step of an execution
\* no record is removed or reordered (the history before the step is a
\* prefix of the history after it, a record being pushed when its step
\* starts), and a finalized record has identical fields afterwards.
C26_WriteOnce ==
  [][\A e \in Execs :
       LET h == History(e)
           h2 == ctx'[e].history
       IN /\ Len(h) <= Len(h2)
          /\ \A n \in 1..Len(h) :
               /\ Pushed(h2[n]) = Pushed(h[n])
               /\ Finalized(h[n]) => h2[n] = h[n]
          /\ \A n \in (Len(h) + 1)..Len(h2) : h2[n].id = n]_vars

\* a composite step's record finalized after the records of two nested
\* steps, which were pushed after it and finalized before it
C26_Witness ==
  \E n \in 1..Len(History(1)) :
    /\ n + 2 <= Len(History(1))
    /\ Finalized(History(1)[n])
    /\ Finalized(History(1)[n + 1])
    /\ Finalized(History(1)[n + 2])
    /\ Len(History(1)[n + 1].path) > Len(History(1)[n].path)
    /\ Len(History(1)[n + 2].path) > Len(History(1)[n].path)
    /\ History(1)[n].output # History(1)[n + 2].output

\* the record at position n of the history was made by a loop step that
\* has nested steps
IsLoopRecord(e, n) ==
  /\ StepOf(e, History(e)[n]).type = "loop"
  /\ Len(StepOf(e, History(e)[n]).steps) >= 1

\* the records of the nested executions this execution of a composite step
\* made: pushed after its record by a step directly below its step, before
\* any other execution of the same step
NestedOf(e, n) ==
  LET h == History(e)
      p == h[n].path
  IN {m \in (n + 1)..Len(h) :
        /\ Len(h[m].path) = Len(p) + 1
        /\ SubSeq(h[m].path, 1, Len(p)) = p
        /\ \A q \in (n + 1)..m : h[q].path # p}

\* the nested executions of the loop execution of record n so far: they
\* are the c records after n, made by S1..Sk in turn, each started after the
\* one before it succeeded and with its output, the first with the loop's
\* input, and never more than iterations * k
LoopSoFar(e, n) ==
  LET h == History(e)
      step == StepOf(e, h[n])
      k == Len(step.steps)
      c == Cardinality(NestedOf(e, n))
  IN /\ NestedOf(e, n) = (n + 1)..(n + c)
     /\ c <= Iterations(step) * k
     /\ \A m \in 1..c :
          /\ h[n + m].path = Append(h[n].path, ((m - 1) % k) + 1)
          /\ h[n + m].input = IF m = 1 THEN h[n].input ELSE h[n + m - 1].output
          /\ m < c => Finalized(h[n + m]) /\ h[n + m].error = Undef

\* the loop execution of record n returned: iterations * k nested
\* executions, the list of the per-iteration final outputs
LoopReturned(e, n) ==
  LET h == History(e)
      step == StepOf(e, h[n])
      k == Len(step.steps)
      c == Cardinality(NestedOf(e, n))
  IN /\ c = Iterations(step) * k
     /\ h[n].error = Undef
     /\ \A m \in 1..c : Finalized(h[n + m]) /\ h[n + m].error = Undef
     /\ h[n].output = ListV([i \in 1..Iterations(step) |-> h[n + i * k].output])

\* C29 as stated: every loop execution that has ended made exactly
\* iterations * k nested executions and returned the list of the
\* per-iteration final outputs.
C29_AsStated ==
  \A n \in 1..Len(History(1)) :
    (IsLoopRecord(1, n) /\ Finalized(History(1)[n])) => LoopReturned(1, n)

\* C29: a loop step with nested steps S1..Sk and iterations = n runs its
\* nested steps one after the other in the order S1..Sk, S1..Sk, ..., the
\* first on the loop's input and every other on the output of the one before
\* it; while none of them fails it makes exactly n * k nested executions and
\* returns the list of the n per-iteration final outputs; when one fails it
\* starts no further nested execution and fails with that error.
C29_Loop ==
  \A n \in 1..Len(History(1)) :
    IsLoopRecord(1, n) =>
      LET h == History(1)
          c == Cardinality(NestedOf(1, n))
      IN /\ LoopSoFar(1, n)
         /\ (Finalized(h[n]) /\ h[n].error = Undef) => LoopReturned(1, n)
         /\ (Finalized(h[n]) /\ h[n].error # Undef) =>
              c >= 1 /\ Finalized(h[n + c]) /\ h[n + c].error = h[n].error

\* a loop of two nested steps and two iterations has returned after four
\* nested executions whose outputs are not all the same
C29_Witness ==
  \E n \in 1..Len(History(1)) :
    /\ IsLoopRecord(1, n)
    /\ Finalized(History(1)[n])
    /\ LoopReturned(1, n)
    /\ Cardinality(NestedOf(1, n)) = 4
    /\ History(1)[n + 2].output # History(1)[n + 4].output
    /\ History(1)[n + 3].input # History(1)[n].input

\* the record at position n of the history was made by a condition step
\* that has a predicate
IsConditionRecord(e, n) ==
  /\ StepOf(e, History(e)[n]).type = "condition"
  /\ StepOf(e, History(e)[n]).condition # "none"

\* the id configured for the outcome of the predicate of a condition step
BranchId(step) == IF step.condition = "true" THEN step.onSuccess ELSE step.onFailure

\* that id is configured and is the id of one of the nested steps
NamesNested(step) ==
  /\ BranchId(step) # "none"
  /\ \E k \in 1..Len(step.steps) : step.steps[k].id = BranchId(step)

\* C30: a condition step whose predicate is true and whose onSuccess names
\* one of its nested steps, or whose predicate is false and whose onFailure
\* names one, executes that nested step, and no other, with its own input
\* and ends with that execution's result; in every other case no nested step
\* runs and the step returns the boolean.
C30_Condition ==
  \A n \in 1..Len(History(1)) :
    IsConditionRecord(1, n) =>
      LET h == History(1)
          step == StepOf(1, h[n])
      IN IF NamesNested(step)
         THEN /\ NestedOf(1, n) = {n + 1}
              /\ h[n + 1].stepId = BranchId(step)
              /\ StepOf(1, h[n + 1]).id = BranchId(step)
              /\ h[n + 1].input = h[n].input
              /\ Finalized(h[n]) =>
                   /\ Finalized(h[n + 1])
                   /\ h[n].output = h[n + 1].output
                   /\ h[n].error = h[n + 1].error
         ELSE /\ NestedOf(1, n) = {}
              /\ Finalized(h[n]) =>
                   /\ h[n].output = Bool(step.condition = "true")
                   /\ h[n].error = Undef

\* a condition step with a true predicate has returned the output of its
\* onSuccess step and one with a false predicate that of its onFailure step
C30_Witness ==
  \E n, m \in 1..Len(History(1)) :
    /\ IsConditionRecord(1, n) /\ IsConditionRecord(1, m)
    /\ StepOf(1, History(1)[n]).condition = "true"
    /\ StepOf(1, History(1)[m]).condition = "false"
    /\ NamesNested(StepOf(1, History(1)[n]))
    /\ NamesNested(StepOf(1, History(1)[m]))
    /\ Finalized(History(1)[n]) /\ Finalized(History(1)[m])
    /\ History(1)[n + 1].stepId = "k" /\ History(1)[m + 1].stepId = "m"
    /\ History(1)[n].output = Str("hello")
    /\ History(1)[m].output = Str("hello")

(***************************************************************************)
(* Further properties of AgentOrchestrator (specification SpecOrch).       *)
(***************************************************************************)
\* what belongs to the executions: a step that leaves it alone cancels and
\* settles none of them
ExecutionsUntouched ==
  /\ call' = call
  /\ ew' = ew
  /\ wf' = wf
  /\ frames' = frames
  /\ ctx' = ctx
  /\ \A e \in Execs : timer'[e] = timer[e] /\ events'[e] = events[e]

\* C31: shutdown called while executions are in flight arms the 30 s timer
\* and changes neither the registry nor any execution; when the timer has
\* elapsed it empties the registry, emits 'orchestrator:shutdown' and
\* returns, again without touching an execution; after it has returned no
\* execution admitted before is in the registry again.
C31_Shutdown ==
  /\ [](shutdownState = "waiting" =>
          timer[0] = [st |-> "armed", ms |-> ShutdownGraceMs] /\ events[0] = <<>>)
  /\ [][/\ (shutdownState = "idle" /\ shutdownState' # "idle" /\ activeExecutions # {}) =>
             /\ shutdownState' = "waiting"
             /\ activeExecutions' = activeExecutions
             /\ ExecutionsUntouched
        /\ (shutdownState = "waiting" /\ shutdownState' # "waiting") =>
             /\ shutdownState' = "done"
             /\ activeExecutions' = {}
             /\ events'[0] = <<ShutdownEvent>>
             /\ ExecutionsUntouched
        /\ shutdownState = "done" =>
             \A e \in activeExecutions' \ activeExecutions : call[e].st = "idle"]_vars

\* shutdown has waited and returned, the registry is empty and an
\* execution that was in flight is still pending, its workflow running
C31_Witness ==
  /\ shutdownState = "done"
  /\ timer[0].st = "fired"
  /\ events[0] = <<ShutdownEvent>>
  /\ activeExecutions = {}
  /\ \E e \in Execs : call[e].st = "pending" /\ ew[e].pc = "workflow" /\ wf[e].pc = "seq"

\* the plugins that have an onError hook, and those whose onError hook
\* was invoked for execution e
WithOnError == {j \in 1..Len(plugins) : "onError" \in plugins[j].hooks}
OnErrorInvoked(e) ==
  {hookLog[e][k].plugin : k \in {i \in 1..Len(hookLog[e]) : hookLog[e][i].hook = "onError"}}

\* C32: when Workflow.execute has failed with error E and execute has
\* rejected (not because the timeout fired), it rejected with E itself, and
\* the onError hook of every plugin that has one was invoked with E.
C32_RejectsWithWorkflowError ==
  \A e \in Execs :
    (wf[e].pc = "failed" /\ call[e].st = "rejected" /\ timer[e].st # "fired") =>
      /\ call[e].value = wf[e].result
      /\ OnErrorInvoked(e) = WithOnError
      /\ \A k \in 1..Len(hookLog[e]) :
           hookLog[e][k].hook = "onError" => hookLog[e][k].arg = wf[e].result

\* the runs whose steps are still executing: workflow.execute was called
\* for the execution and has neither returned nor thrown
StillExecuting == {e \in Execs : ew[e].pc = "workflow" /\ wf[e].pc \notin {"idle", "done", "failed"}}

\* C33: the number of workflow runs whose steps are still executing never
\* exceeds maxConcurrentExecutions.
C33_RunningBound == Cardinality(StillExecuting) <= maxConcurrentExecutions

(***************************************************************************)
(* Further properties of Workflow.execute (specification Spec).            *)
(***************************************************************************)
\* the positions of the failed records among the top-level records
FailedTop(e) == {k \in 1..Len(TopLevel(e)) : TopLevel(e)[k].error # Undef}

\* C34: a sequential run that has finished with one recovered failure
\* executed the recovery step once, and left one top-level record for each
\* of the N declared steps.
C34_SingleSubstitution ==
  (wf[1].pc = "done" /\ Sequential(1) /\ Cardinality(FailedTop(1)) = 1) =>
    LET top == TopLevel(1)
    IN /\ Len(top) = Len(workflow[1].steps)
       /\ \A k \in 1..Len(top) :
            IsRecovery(top, k) =>
              Cardinality({m \in 1..Len(top) : top[m].path = top[k].path}) = 1

(***************************************************************************)
(* Further properties of CachePlugin (specification SpecCache).            *)
(***************************************************************************)
\* C35: an agent call whose own lookup missed the cache ends with
\* afterAgentExecution returning the call's own result and storing it in
\* the cache, whatever earlier calls in the same context found.
C35_MissReturnsOwnResult ==
  [][\A c \in Contexts :
       (Ends(c) /\ ~cacheCalls[c].hit) =>
         /\ cacheLast'.op = "set"
         /\ cacheLast'.value = cacheLast'.result
         /\ CacheHas(cache', cacheLast'.key)]_vars

\* C36: the key under which afterAgentExecution stores the result of a call
\* with agent id A and prompt P is the key beforeAgentExecution computes for
\* A and P.
C36_StoreKeyIsLookupKey ==
  [][\A c \in Contexts :
       (Ends(c) /\ cacheLast'.op = "set") =>
         cacheLast'.key = DefaultKeyGenerator(cacheCalls[c].agentId, cacheCalls[c].prompt)]_vars

(***************************************************************************)
(* Further properties of RateLimiterPlugin (specification SpecLimiter).    *)
(***************************************************************************)
\* the counters of the key, 0 for a key without entry
CountersOf(m, key) ==
  IF key \in DOMAIN m THEN [count |-> m[key].count, burstCount |-> m[key].burstCount]
  ELSE [count |-> 0, burstCount |-> 0]

\* C37: for every key burstCount <= burstLimit and count <= requestsPerHour;
\* a rejected request increments neither counter of its key; a request
\* under one key changes neither the entry of another key nor whether a
\* request under that other key would be admitted.
C37_Counters ==
  /\ [](\A key \in DOMAIN limits :
          /\ limits[key].burstCount <= limiterPlugin.burstLimit
          /\ limits[key].count <= limiterPlugin.requestsPerHour)
  /\ [][limiterCount' # limiterCount =>
          /\ ~limiterLast'.admitted =>
               /\ CountersOf(limits', limiterLast'.key).count
                    <= CountersOf(limits, limiterLast'.key).count
               /\ CountersOf(limits', limiterLast'.key).burstCount
                    <= CountersOf(limits, limiterLast'.key).burstCount
          /\ limiterLast'.admitted =>
               /\ limiterLast'.key \in DOMAIN limits'
               /\ limits'[limiterLast'.key].count >= 1
               /\ limits'[limiterLast'.key].burstCount >= 1
          /\ \A agentId \in LimiterAgents, userId \in UserIds :
               LET key == LimiterKey(agentId, userId)
               IN key # limiterLast'.key =>
                    /\ (key \in DOMAIN limits) = (key \in DOMAIN limits')
                    /\ key \in DOMAIN limits => limits'[key] = limits[key]
                    /\ CheckRateLimit(key).ok' = CheckRateLimit(key).ok]_vars

\* a request was rejected under a key whose burst counter is at the burst
\* limit, while another key has an entry with its own count
C37_Witness ==
  /\ limiterLast # <<>>
  /\ ~limiterLast.admitted
  /\ limiterLast.key \in DOMAIN limits
  /\ limits[limiterLast.key].burstCount = limiterPlugin.burstLimit
  /\ \E key \in DOMAIN limits :
       key # limiterLast.key /\ limits[key].count = 1 /\ limits[key].burstCount = 1

(***************************************************************************)
(* Further properties of PluginManager (specification SpecPlugins).        *)
(***************************************************************************)
\* the plugin objects in the registry
Registered == {pmPlugins[i].plugin : i \in 1..Len(pmPlugins)}

\* the entries of the list of the hook name, none without a list
HookEntries(hookName) == IF hookName \in DOMAIN pmHooks THEN pmHooks[hookName] ELSE <<>>

\* C38: each per-hook-name list contains exactly the registered plugins
\* that implement the hook, each once.
C38_HookListsMatchRegistry ==
  \A k \in DOMAIN HookMethods :
    LET list == HookEntries(HookMethods[k])
    IN /\ {list[i].plugin : i \in 1..Len(list)}
            = {o \in Registered : HookMethods[k] \in pluginObjs[o].hooks}
       /\ \A i, j \in 1..Len(list) : list[i].plugin = list[j].plugin => i = j

(***************************************************************************)
(* The input of an execution (specification SpecOrch).                     *)
(***************************************************************************)
\* C39: for every admitted execute call, context.variables.input is the
\* input value the caller passed, and the first step of the sequential
\* workflow receives that value.
C39_InputPreserved ==
  \A e \in Execs :
    events[e] # <<>> =>
      /\ InputOf(ctx[e]) = call[e].args.input
      /\ History(e) # <<>> => History(e)[1].input = call[e].args.input

====
